---- MODULE Spec2Model ----
(***************************************************************************)
(* kitchen-hand-guide: the JWT token codec (auth.rs), the Authentication   *)
(* middleware and the two identity extractors (middleware.rs), the route   *)
(* table (main.rs) and the request handlers (handlers.rs, models.rs,       *)
(* utils.rs), as a state machine.                                          *)
(*                                                                         *)
(* Text is modelled as a sequence of parts.  A part is either one          *)
(* character, [ch |-> "B"], or one encoded JWT, [jwt |-> ...], standing    *)
(* for the base64url text "header.payload.signature" that carries the      *)
(* payload and was signed with a key.  Times are seconds since the epoch.  *)
(*                                                                         *)
(* Records and sets of strings are written with their members in the order *)
(* TLC keeps them in, so that a value shared by several TLC workers is     *)
(* never re-ordered in place; the order carries no meaning.  A value that  *)
(* a handler uses several times is passed to an operator as a parameter    *)
(* rather than named in a LET.                                             *)
(***************************************************************************)
EXTENDS Integers, Sequences, FiniteSets, TLC

VARIABLES
    now,      \* Utc::now().timestamp(): the wall clock, in seconds
    ticks,    \* how often the clock has advanced (bounds the run)
    env,      \* the process environment: JWT_SECRET, JWT_EXPIRATION_HOURS
    users,    \* the users table: username -> row
    issued,   \* ghost: every token generate_token returned, with its inputs
    codec,    \* ghost: the last direct call of the token codec and its result
    jar,      \* the auth_token cookie a browser client holds
    req,      \* the request being answered
    out,      \* what the pipeline did with req
    products,      \* the products table: id -> row
    preparations,  \* the preparations table: id -> row
    steps,         \* the preparation_steps table: its rows, as inserted
    blobs          \* the upload storage: the URLs of the blobs written

dbVars == <<products, preparations, steps, blobs>>
vars == <<now, ticks, env, users, issued, codec, jar, req, out, dbVars>>

----------------------------------------------------------------------------
(* Bounds of the model *)

MaxTicks == 2
MaxIssued == 1
MaxRows == 1
MaxFailOp == 6
StartTime == 7200

(* Program constants *)

\* jsonwebtoken's Validation::default(): leeway of 60 seconds on exp
Leeway == 60
\* chrono's Duration::hours(n) is n * 3600 seconds
SecondsPerHour == 3600
\* JWT_EXPIRATION_HOURS when unset or unparsable
DefaultExpirationHours == 24

----------------------------------------------------------------------------
(* Option and Result values *)

None == [tag |-> "None"]
Some(v) == [tag |-> "Some", val |-> v]
IsSome(o) == o.tag = "Some"

Ok(v) == [val |-> v, kind |-> "Ok"]
Err(e) == [kind |-> "Err", err |-> e]
Panic(m) == [kind |-> "Panic", msg |-> m]
IsOk(r) == r.kind = "Ok"

----------------------------------------------------------------------------
(* Text *)

Chars(s) == [i \in 1..Len(s) |-> [ch |-> s[i]]]

\* str::starts_with
StartsWith(s, prefix) ==
    /\ Len(s) >= Len(prefix)
    /\ SubSeq(s, 1, Len(prefix)) = prefix

\* &s[n..]
SliceFrom(s, n) == SubSeq(s, n + 1, Len(s))

----------------------------------------------------------------------------
(* UUIDs.  Uuid::to_string writes the lower-case hyphenated form;          *)
(* Uuid::parse_str also reads the simple, the upper-case, the braced and   *)
(* the URN form of the same value, and fails on any other text.            *)

Uuids == {"uuid-a", "uuid-b"}
UuidForms == {"hyphenated", "simple", "upper"}

UuidText(u, form) == [form |-> form, uuid |-> u]
PlainText(s) == [text |-> s]

UuidToString(u) == UuidText(u, "hyphenated")

UuidParseStr(s) ==
    IF DOMAIN s = {"form", "uuid"} THEN Ok(s.uuid) ELSE Err("InvalidUuid")

----------------------------------------------------------------------------
(* auth.rs: the credential codec *)

\* bcrypt reads at most this many bytes of its key
BcryptMaxBytes == 72

\* the key bcrypt::hash and bcrypt::verify derive from a password: the bytes
\* of the password and a terminating NUL, cut to the first BcryptMaxBytes
\* bytes.  A shorter password is its own key; of a longer one only the
\* first BcryptMaxBytes bytes count
BcryptKey(password) ==
    IF Len(password) >= BcryptMaxBytes
    THEN SubSeq(password, 1, BcryptMaxBytes)
    ELSE password


\* bcrypt::hash draws a fresh salt; bcrypt::verify recomputes with the salt
\* stored in the hash and compares
BcryptHash(password, salt) ==
    [salt |-> salt, digest |-> <<salt, BcryptKey(password)>>]
BcryptVerify(password, hash) ==
    hash.digest = <<hash.salt, BcryptKey(password)>>

\* auth.rs 24-26: bcrypt::hash draws a fresh salt, here the caller's
hash_password(password, salt) == Ok(BcryptHash(password, salt))

----------------------------------------------------------------------------
(* auth.rs: the token codec *)

ServerSecret == "server-secret"
OtherSecret == "other-secret"

\* auth.rs 10-15
Claims(sub, username, exp, iat) ==
    [sub |-> sub, username |-> username, exp |-> exp, iat |-> iat]

IsClaims(p) == DOMAIN p = {"sub", "username", "exp", "iat"}

\* jsonwebtoken::encode with Header::default() (HS256) and a secret
Encode(payload, key) == <<[jwt |-> [payload |-> payload, key |-> key]]>>

\* str::parse::<i64> on the values the environment variable takes here
ParseI64(s) ==
    CASE s = "24" -> Ok(24)
      [] s = "2" -> Ok(2)
      [] s = "1" -> Ok(1)
      [] s = "0" -> Ok(0)
      [] s = "-1" -> Ok(0 - 1)
      [] OTHER -> Err("ParseIntError")

\* auth.rs 50-53
ExpirationHours(e) ==
    LET text == IF IsSome(e.JWT_EXPIRATION_HOURS)
                THEN e.JWT_EXPIRATION_HOURS.val ELSE "24"
        parsed == ParseI64(text)
    IN  IF IsOk(parsed) THEN parsed.val ELSE DefaultExpirationHours

\* an issuer that writes the subject without hyphens, which C8 excludes
generate_token_SimpleSub(user_id, username, e, t) ==
    IF ~IsSome(e.JWT_SECRET)
    THEN Panic("JWT_SECRET must be set in .env file")
    ELSE Ok(Encode(Claims(UuidText(user_id, "simple"), username,
                          t + ExpirationHours(e) * SecondsPerHour, t),
                   e.JWT_SECRET.val))

\* auth.rs 48-72
generate_token(user_id, username, e, t) ==
    IF ~IsSome(e.JWT_SECRET)
    THEN Panic("JWT_SECRET must be set in .env file")
    ELSE LET exp == t + ExpirationHours(e) * SecondsPerHour
             iat == t
         IN  Ok(Encode(Claims(UuidToString(user_id), username, exp, iat),
                       e.JWT_SECRET.val))

\* jsonwebtoken::decode::<Claims> with Validation::default(): the text must
\* be one JWT, its signature must verify with the key, exp must not lie more
\* than the leeway in the past, and the payload must deserialize to Claims
Decode(token, key, t) ==
    IF ~(Len(token) = 1 /\ DOMAIN token[1] = {"jwt"})
    THEN Err("InvalidToken")
    ELSE LET j == token[1].jwt IN
         IF j.key # key THEN Err("InvalidSignature")
         ELSE IF ~IsClaims(j.payload) THEN Err("Json")
         ELSE IF j.payload.exp < t - Leeway THEN Err("ExpiredSignature")
         ELSE Ok(j.payload)

\* a validator that looks the user up and refuses a deactivated one, which
\* C7 excludes
validate_token_ActiveOnly(token, e, t) ==
    IF ~IsSome(e.JWT_SECRET)
    THEN Panic("JWT_SECRET must be set in .env file")
    ELSE LET decoded == Decode(token, e.JWT_SECRET.val, t) IN
         IF /\ IsOk(decoded)
            /\ decoded.val.username \in DOMAIN users
            /\ ~users[decoded.val.username].is_active
         THEN Err("Revoked")
         ELSE decoded

\* auth.rs 81-91
validate_token(token, e, t) ==
    IF ~IsSome(e.JWT_SECRET)
    THEN Panic("JWT_SECRET must be set in .env file")
    ELSE Decode(token, e.JWT_SECRET.val, t)

----------------------------------------------------------------------------
(* HTTP values *)

\* HttpResponse: status, body, Location header, Set-Cookie header
\* a request as a service sees it: the middleware fills extensions; fail_op
\* and faults say which operation of the request fails, if any
Request(method, path, authorization, cookie, form, fail_op, faults) ==
    [kind |-> "request", form |-> form, method |-> method, path |-> path,
     authorization |-> authorization, cookie |-> cookie,
     fail_op |-> fail_op, faults |-> faults, extensions |-> None]

NoForm == [fields |-> <<>>]

Response(status, body) ==
    [status |-> status, body |-> body, location |-> None, set_cookie |-> None]

\* the server state an operation reads
ServerState ==
    [now |-> now,
     env |-> env,
     users |-> users,
     db |-> [products |-> products, preparations |-> preparations,
             steps |-> steps, blobs |-> blobs]]

\* what a service call comes to: the response, whether the route's handler
\* ran, the request extensions and identities it saw, what it wrote
ServiceResult(response, handler, calls, seen, db, writes, tokens) ==
    [extensions |-> seen.extensions,
     db |-> db,
     response |-> response,
     handler |-> handler,
     calls |-> calls,
     writes |-> writes,
     tokens |-> tokens,
     handler_response |-> IF calls = 0 THEN None ELSE Some(response),
     optional_auth |-> seen.optional_auth,
     authenticated_user |-> seen.authenticated_user,
     selected |-> seen.selected,
     validated |-> seen.validated]

NothingSeen ==
    [extensions |-> None, optional_auth |-> None, authenticated_user |-> None,
     selected |-> None, validated |-> None]

\* a service that answers without reaching a handler
Answered(response, st) ==
    ServiceResult(response, "none", 0, NothingSeen, st.db, {}, {})

\* a panic unwinds the request's task: the connection is dropped
Panicked(st) ==
    ServiceResult(Response(0, PlainText("panic")), "none", 0, NothingSeen, st.db, {}, {})

----------------------------------------------------------------------------
(* middleware.rs: the identity extractors *)

\* middleware.rs 118-123, 154-159, 169-174
UserOfClaims(claims) ==
    LET id == UuidParseStr(claims.sub) IN
    IF IsOk(id)
    THEN Ok([username |-> claims.username, user_id |-> id.val])
    ELSE Err("Invalid user ID in token")

\* an extractor that validates the auth_token cookie itself when no claims
\* are attached, which C11 excludes
AuthenticatedUser_ValidatingCookie(r) ==
    IF IsSome(r.extensions)
    THEN IF IsOk(UserOfClaims(r.extensions.val))
         THEN UserOfClaims(r.extensions.val)
         ELSE Err(Response(401, PlainText("Invalid user ID in token")))
    ELSE IF /\ IsSome(r.cookie)
            /\ IsOk(validate_token(r.cookie.val, env, now))
            /\ IsOk(UserOfClaims(validate_token(r.cookie.val, env, now).val))
    THEN UserOfClaims(validate_token(r.cookie.val, env, now).val)
    ELSE Err(Response(401, PlainText("Authentication required")))

\* middleware.rs 112-134: AuthenticatedUser::from_request
AuthenticatedUser_from_request(r) ==
    IF IsSome(r.extensions)
    THEN LET user == UserOfClaims(r.extensions.val) IN
         IF IsOk(user) THEN user
         ELSE Err(Response(401, PlainText("Invalid user ID in token")))
    ELSE Err(Response(401, PlainText("Authentication required")))

\* an extractor that asks the cookie before the attached claims, which C10
\* excludes
OptionalAuth_CookieFirst(r, st) ==
    LET v == validate_token(r.cookie.val, st.env, st.now) IN
    IF IsSome(r.cookie) /\ IsOk(v) /\ IsOk(UserOfClaims(v.val))
    THEN Ok([user |-> Some(UserOfClaims(v.val).val)])
    ELSE IF IsSome(r.extensions) /\ IsOk(UserOfClaims(r.extensions.val))
    THEN Ok([user |-> Some(UserOfClaims(r.extensions.val).val)])
    ELSE Ok([user |-> None])

\* an extractor that reads the Authorization header as the middleware
\* does, which C29 excludes
OptionalAuth_HeaderToo(r, st) ==
    LET header == IF IsSome(r.authorization)
                     /\ \A i \in 1..Len(r.authorization.val) :
                            DOMAIN r.authorization.val[i] # {"byte"}
                     /\ StartsWith(r.authorization.val,
                                   Chars(<<"B", "e", "a", "r", "e", "r", " ">>))
                  THEN Some(SliceFrom(r.authorization.val, 7))
                  ELSE r.cookie
        v == validate_token(header.val, st.env, st.now)
    IN  IF IsSome(r.extensions) /\ IsOk(UserOfClaims(r.extensions.val))
        THEN Ok([user |-> Some(UserOfClaims(r.extensions.val).val)])
        ELSE IF IsSome(header) /\ IsOk(v) /\ IsOk(UserOfClaims(v.val))
        THEN Ok([user |-> Some(UserOfClaims(v.val).val)])
        ELSE Ok([user |-> None])


\* middleware.rs 148-179: OptionalAuth::from_request
OptionalAuth_from_request(r, st) ==
    LET from_extensions ==
            IF IsSome(r.extensions) /\ IsOk(UserOfClaims(r.extensions.val))
            THEN Some(UserOfClaims(r.extensions.val).val) ELSE None
    IN  IF IsSome(from_extensions) THEN Ok([user |-> from_extensions])
        ELSE IF ~IsSome(r.cookie) THEN Ok([user |-> None])
        ELSE LET v == validate_token(r.cookie.val, st.env, st.now) IN
             CASE v.kind = "Panic" -> v
               [] v.kind = "Ok" /\ IsOk(UserOfClaims(v.val)) ->
                      Ok([user |-> Some(UserOfClaims(v.val).val)])
               [] OTHER -> Ok([user |-> None])

----------------------------------------------------------------------------
(* utils.rs and handlers.rs: file names and the upload storage adapter *)

\* Path::new(filename).extension(): the text after the last dot of the file
\* name, none for a name without a dot or with only a leading dot
Extension(filename) ==
    CASE filename = "photo.PNG" -> Some("PNG")
      [] filename = "a.jpg" -> Some("jpg")
      [] filename = "b.webp" -> Some("webp")
      [] filename = "payload.exe" -> Some("exe")
      [] filename = "archive.png.exe" -> Some("exe")
      [] OTHER -> None    \* "", "noext", ".png"

\* str::to_lowercase on the extensions above
ToLowercase(ext) ==
    CASE ext = "PNG" -> "png"
      [] OTHER -> ext

\* a check that lets every file name through, which C13 excludes
is_valid_image_extension_Any(filename) == TRUE


\* utils.rs 63-74
is_valid_image_extension(filename) ==
    LET ext == Extension(filename) IN
    IF IsSome(ext)
    THEN ToLowercase(ext.val) \in {"jpg", "webp", "png", "jpeg"}
    ELSE FALSE

\* utils.rs 131-143
get_content_type(filename) ==
    LET ext == Extension(filename)
        lower == ToLowercase(IF IsSome(ext) THEN ext.val ELSE "")
    IN  CASE lower \in {"jpg", "jpeg"} -> "image/jpeg"
          [] lower = "png" -> "image/png"
          [] lower = "webp" -> "image/webp"
          [] OTHER -> "application/octet-stream"

\* the String::new() a record without a picture carries
NoUrl == [uuid |-> 0, ext |-> "", backend |-> "none", content_type |-> ""]

\* a name taken from the upload instead of a fresh UUID, which C16 excludes
NewBlobUuid_Fixed(stored) == 1


\* Uuid::new_v4(): a value no earlier upload drew
NewBlobUuid(stored) == Cardinality(stored) + 1

\* what a store operation comes to: the URL or the error, and the storage
Stored(result, stored) == [blobs |-> stored, result |-> result]

\* utils.rs 96-128
upload_to_s3(stored, filename, content_type, fails) ==
    LET ext == Extension(filename)
        url == [uuid |-> NewBlobUuid(stored),
                ext |-> IF IsSome(ext) THEN ext.val ELSE "jpg",
                backend |-> "s3",
                content_type |-> content_type]
    IN  IF fails THEN Stored(Err("S3 put_object failed"), stored)
        ELSE Stored(Ok(url), stored \cup {url})

\* std::env::var("S3_ENABLED").unwrap_or("false").parse::<bool>().unwrap_or(false)
S3Enabled(e) == e.S3_ENABLED = Some("true")

\* an adapter that returns the URL also when the write failed, which C15
\* excludes
upload_image_to_storage_UrlOnFailure(e, stored, filename, fails) ==
    Stored(Ok([uuid |-> NewBlobUuid(stored),
               ext |-> Extension(filename).val,
               backend |-> IF S3Enabled(e) THEN "s3" ELSE "local",
               content_type |-> IF S3Enabled(e)
                                THEN get_content_type(filename) ELSE ""]),
           IF fails THEN stored
           ELSE stored \cup {[uuid |-> NewBlobUuid(stored),
                              ext |-> Extension(filename).val,
                              backend |-> IF S3Enabled(e) THEN "s3" ELSE "local",
                              content_type |-> IF S3Enabled(e)
                                  THEN get_content_type(filename) ELSE ""]})


\* handlers.rs 556-607
upload_image_to_storage(e, stored, filename, fails) ==
    IF S3Enabled(e)
    THEN LET up == upload_to_s3(stored, filename, get_content_type(filename), fails)
         IN  IF IsOk(up.result) THEN up
             ELSE Stored(Err(Response(500,
                      PlainText("Failed to upload file to S3"))), stored)
    ELSE LET ext == Extension(filename)
             url == [uuid |-> NewBlobUuid(stored),
                     ext |-> IF IsSome(ext) THEN ext.val ELSE "jpg",
                     backend |-> "local",
                     content_type |-> ""]
         IN  IF fails
             THEN Stored(Err(Response(500,
                      PlainText("Failed to save uploaded file"))), stored)
             ELSE Stored(Ok(url), stored \cup {url})

----------------------------------------------------------------------------
(* models.rs: form validation and the tables *)

\* str::trim().is_empty() on the field values used here
TrimIsEmpty(s) == s \in {" ", ""}

\* models.rs 30-44
NewProductForm_validate(f) ==
    IF TrimIsEmpty(f.supplier_name) THEN Err("Supplier name cannot be empty")
    ELSE IF TrimIsEmpty(f.product_name) THEN Err("Product name cannot be empty")
    ELSE IF TrimIsEmpty(f.location) THEN Err("Location cannot be empty")
    ELSE IF TrimIsEmpty(f.description) THEN Err("Description cannot be empty")
    ELSE Ok("valid")

\* a validation that tests the location before the other fields, which C23
\* excludes
NewPreparationForm_validate_LocationFirst(f) ==
    IF TrimIsEmpty(f.location) THEN Err("Location cannot be empty")
    ELSE IF TrimIsEmpty(f.name) THEN Err("Preparation name cannot be empty")
    ELSE IF f.prep_type \notin {"fruit", "bread", "veg", "meat", "seafood"}
    THEN Err("Invalid preparation type")
    ELSE IF f.shift \notin {"brekkie", "lunch", "both"}
    THEN Err("Invalid shift selection")
    ELSE IF TrimIsEmpty(f.steps) THEN Err("Steps cannot be empty")
    ELSE Ok("valid")


\* models.rs 148-165
NewPreparationForm_validate(f) ==
    IF TrimIsEmpty(f.name) THEN Err("Preparation name cannot be empty")
    ELSE IF f.prep_type \notin {"fruit", "bread", "veg", "meat", "seafood"}
    THEN Err("Invalid preparation type")
    ELSE IF f.shift \notin {"brekkie", "lunch", "both"}
    THEN Err("Invalid shift selection")
    ELSE IF TrimIsEmpty(f.location) THEN Err("Location cannot be empty")
    ELSE IF TrimIsEmpty(f.steps) THEN Err("Steps cannot be empty")
    ELSE Ok("valid")

\* the id the database gives a new row
RowIds == <<"id-1", "id-2", "id-3", "id-4">>
NewRowId(table) == RowIds[Cardinality(DOMAIN table) + 1]

\* a table with one row added or replaced
WithRow(table, id, row) ==
    [k \in DOMAIN table \cup {id} |-> IF k = id THEN row ELSE table[k]]

\* models.rs 73-93 (create) and 96-119 (update): the row written
ProductRow(f, picture_url) ==
    [location |-> f.location,
     supplier_name |-> f.supplier_name,
     product_name |-> f.product_name,
     description |-> f.description,
     picture_url |-> picture_url]

\* models.rs 194-216 (create) and 219-244 (update): the row written
PreparationRow(f, picture_url) ==
    [steps |-> f.steps,
     location |-> f.location,
     name |-> f.name,
     prep_type |-> f.prep_type,
     shift |-> f.shift,
     picture_url |-> picture_url]

\* models.rs 277-295: PreparationStep::create
PreparationStep_create(rows, preparation_id, step_number, description, picture_url) ==
    Append(rows, [description |-> description,
                  picture_url |-> picture_url,
                  preparation_id |-> preparation_id,
                  step_number |-> step_number])

\* models.rs 298-307: PreparationStep::delete_by_preparation_id
RECURSIVE PreparationStep_delete_by_preparation_id(_, _)
PreparationStep_delete_by_preparation_id(rows, preparation_id) ==
    IF rows = <<>> THEN <<>>
    ELSE LET rest == PreparationStep_delete_by_preparation_id(Tail(rows),
                                                              preparation_id)
         IN  IF Head(rows).preparation_id = preparation_id
             THEN rest ELSE <<Head(rows)>> \o rest

----------------------------------------------------------------------------
(* handlers.rs: what a handler returns, and the pages it renders *)

HandlerResult(response, db, writes, tokens) ==
    [db |-> db, response |-> response, writes |-> writes, tokens |-> tokens]

\* the k-th database query or storage call of the request fails
Fails(r, k) == r.fail_op = k

\* what a request whose store operation returned an error has touched
StorageFailed == {"storage", "storage failed"}

\* a handler that only reads
ReadOnly(response, st) == HandlerResult(response, st.db, {}, {})

\* template.render().map_err(ErrorInternalServerError) and the response
\* built from the page; is_authenticated and username come from OptionalAuth
Render(r, status, page, error, auth) ==
    IF "render" \in r.faults
    THEN Response(500, PlainText("Failed to render template"))
    ELSE Response(status,
             [username |-> IF IsSome(auth.user)
                           THEN Some(auth.user.val.username) ELSE None,
              page |-> page,
              error |-> error,
              is_authenticated |-> IsSome(auth.user)])

\* the pages of handlers that take no OptionalAuth
Anonymous == [user |-> None]

\* web::Path<Uuid>: the id segment of /x/{id}...
PathId(r) == r.path[2]

\* handlers.rs 76-99
index(r, st, auth) ==
    IF Fails(r, 1)
    THEN ReadOnly(Response(500, PlainText("Failed to fetch products")), st)
    ELSE ReadOnly(Render(r, 200, "index.html", "", auth), st)

\* handlers.rs 102-117
new_product_form(r, st, auth) ==
    ReadOnly(Render(r, 200, "product_new.html", "", auth), st)

\* handlers.rs 257-288
product_detail(r, st, auth) ==
    IF Fails(r, 1)
    THEN ReadOnly(Response(500, PlainText("Failed to fetch product")), st)
    ELSE IF PathId(r) \in DOMAIN st.db.products
    THEN ReadOnly(Render(r, 200, "product_detail.html", "", auth), st)
    ELSE ReadOnly(Response(404, PlainText("404 - Product Not Found")), st)

\* handlers.rs 332-355
preparations_index(r, st, auth) ==
    IF Fails(r, 1)
    THEN ReadOnly(Response(500, PlainText("Failed to fetch preparations")), st)
    ELSE ReadOnly(Render(r, 200, "preparations_index.html", "", auth), st)

\* handlers.rs 358-373
new_preparation_form(r, st, auth) ==
    ReadOnly(Render(r, 200, "preparation_new.html", "", auth), st)

\* handlers.rs 610-650
preparation_detail(r, st, auth) ==
    IF Fails(r, 1)
    THEN ReadOnly(Response(500, PlainText("Failed to fetch preparation")), st)
    ELSE IF PathId(r) \in DOMAIN st.db.preparations
    THEN IF Fails(r, 2)
         THEN ReadOnly(Response(500,
                  PlainText("Failed to fetch preparation steps")), st)
         ELSE ReadOnly(Render(r, 200, "preparation_detail.html", "", auth), st)
    ELSE ReadOnly(Response(404, PlainText("404 - Preparation Not Found")), st)

\* handlers.rs 655-687
edit_product_form(r, st, auth) ==
    IF Fails(r, 1)
    THEN ReadOnly(Response(500, PlainText("Failed to fetch product")), st)
    ELSE IF PathId(r) \in DOMAIN st.db.products
    THEN ReadOnly(Render(r, 200, "product_edit.html", "", auth), st)
    ELSE ReadOnly(Response(404, PlainText("404 - Product Not Found")), st)

\* handlers.rs 791-831
edit_preparation_form(r, st, auth) ==
    IF Fails(r, 1)
    THEN ReadOnly(Response(500, PlainText("Failed to fetch preparation")), st)
    ELSE IF PathId(r) \in DOMAIN st.db.preparations
    THEN IF Fails(r, 2)
         THEN ReadOnly(Response(500,
                  PlainText("Failed to fetch preparation steps")), st)
         ELSE ReadOnly(Render(r, 200, "preparation_edit.html", "", auth), st)
    ELSE ReadOnly(Response(404, PlainText("404 - Preparation Not Found")), st)

\* handlers.rs 1046-1104
search(r, st, auth) ==
    IF Fails(r, 1)
    THEN ReadOnly(Response(500, PlainText("Failed to search products")), st)
    ELSE IF Fails(r, 2)
    THEN ReadOnly(Response(500, PlainText("Failed to search preparations")), st)
    ELSE ReadOnly(Render(r, 200, "search_results.html", "", auth), st)

\* handlers.rs 1123-1139
login_form(r, st, auth) ==
    IF IsSome(auth.user)
    THEN ReadOnly([Response(303, PlainText("")) EXCEPT !.location = Some(<<>>)], st)
    ELSE ReadOnly(Render(r, 200, "login.html", "", Anonymous), st)

\* a lookup that also finds users who are not active, which C17 excludes
User_get_by_username_Inactive(st, username) ==
    IF username \in DOMAIN st.users
    THEN Some(st.users[username]) ELSE None


\* models.rs 372-384: WHERE username = $1 AND is_active = true
User_get_by_username(st, username) ==
    IF username \in DOMAIN st.users /\ st.users[username].is_active
    THEN Some(st.users[username]) ELSE None

\* auth.rs 36-38
verify_password(password, hash) == Ok(BcryptVerify(password, hash))

\* Cookie::build(name, value).path("/").http_only(true)
Cookie(value, max_age) ==
    [path |-> "/",
     name |-> "auth_token",
     value |-> value,
     max_age |-> max_age,
     http_only |-> TRUE]

\* handlers.rs 1142-1210
login(r, st) ==
    IF Fails(r, 1)
    THEN ReadOnly(Response(500, PlainText("Database error")), st)
    ELSE LET user == User_get_by_username(st, r.form.username) IN
         IF ~IsSome(user)
         THEN ReadOnly(Render(r, 401, "login.html",
                              "Invalid username or password", Anonymous), st)
         ELSE IF verify_password(r.form.password, user.val.password_hash) = Ok(TRUE)
         THEN LET token == generate_token(user.val.id, user.val.username,
                                          st.env, st.now) IN
              IF token.kind = "Panic"
              THEN HandlerResult(Response(0, PlainText("panic")), st.db, {}, {})
              ELSE HandlerResult(
                       [Response(303, PlainText("")) EXCEPT
                            !.location = Some(<<>>),
                            !.set_cookie = Some(Cookie(token.val, None))],
                       st.db, {},
                       {[username |-> user.val.username,
                         user_id |-> user.val.id,
                         token |-> token.val,
                         ttl |-> ExpirationHours(st.env),
                         at |-> st.now]})
         ELSE ReadOnly(Render(r, 401, "login.html",
                              "Invalid username or password", Anonymous), st)

\* handlers.rs 1213-1218 and 1221-1229: registration is disabled
register_form(r, st) ==
    ReadOnly(Response(404, PlainText("Registration Temporarily Disabled")), st)

register(r, st) ==
    ReadOnly(Response(404, PlainText("Registration Temporarily Disabled")), st)

\* a logout that redirects without re-issuing the cookie, which C18 excludes
logout_Redirect(r, st) ==
    ReadOnly([Response(303, PlainText("")) EXCEPT !.location = Some(<<>>)], st)


\* handlers.rs 1232-1243
logout(r, st) ==
    ReadOnly([Response(303, PlainText("")) EXCEPT
                  !.location = Some(<<>>),
                  !.set_cookie = Some(Cookie(<<>>, Some(0)))], st)

\* handlers.rs 1253-1264
error_401(r, st) ==
    ReadOnly(Render(r, 401, "401.html", "", Anonymous), st)

\* actix_files::Files::new("/static", "./static"): serves files, writes none
static_files(r, st) ==
    ReadOnly(Response(200, PlainText("file")), st)

----------------------------------------------------------------------------
(* handlers.rs: the product handlers that write *)

Redirect(path) == [Response(303, PlainText("")) EXCEPT !.location = Some(path)]

\* handlers.rs 120-254.  I/O operations in order: with a picture, reading
\* the uploaded file (1), the store (2), the insert (3); without, the insert (1)
create_product(r, st, auth) ==
    LET f == r.form
        valid == NewProductForm_validate(f)
        insert(picture_url, stored, writes, k) ==
            IF Fails(r, k)
            THEN HandlerResult(Response(500, PlainText("Failed to create product")),
                               [st.db EXCEPT !.blobs = stored], writes, {})
            ELSE LET id == NewRowId(st.db.products) IN
                 HandlerResult(Redirect(<<"product", id>>),
                     [st.db EXCEPT
                          !.blobs = stored,
                          !.products = WithRow(@, id, ProductRow(f, picture_url))],
                     writes \cup {"products"}, {})
    IN
    IF ~IsOk(valid)
    THEN ReadOnly(Render(r, 400, "product_new.html", valid.err, auth), st)
    ELSE IF ~IsSome(f.picture)
    THEN insert(NoUrl, st.db.blobs, {}, 1)
    ELSE IF ~IsSome(f.picture.val.file_name)
    THEN ReadOnly(Response(400, PlainText("Invalid file uploaded")), st)
    ELSE LET filename == f.picture.val.file_name.val IN
         IF ~is_valid_image_extension(filename)
         THEN ReadOnly(Render(r, 400, "product_new.html",
                  "Invalid file type. Only JPG, PNG, and WEBP are allowed.",
                  auth), st)
         ELSE IF Fails(r, 1)
         THEN ReadOnly(Response(500, PlainText("Failed to read uploaded file")), st)
         ELSE IF S3Enabled(st.env)
         THEN LET up == upload_to_s3(st.db.blobs, filename,
                                     get_content_type(filename), Fails(r, 2))
              IN  IF IsOk(up.result)
                  THEN insert(up.result.val, up.blobs, {"storage"}, 3)
                  ELSE HandlerResult(
                           Response(500, PlainText("Failed to upload file to S3")),
                           st.db, StorageFailed, {})
         ELSE \* handlers.rs 209-228: persist the file under a new name
              LET ext == Extension(filename)
                  url == [uuid |-> NewBlobUuid(st.db.blobs),
                          ext |-> IF IsSome(ext) THEN ext.val ELSE "jpg",
                          backend |-> "local",
                          content_type |-> ""]
              IN  IF Fails(r, 2)
                  THEN HandlerResult(
                           Response(500, PlainText("Failed to save uploaded file")),
                           st.db, StorageFailed, {})
                  ELSE insert(url, st.db.blobs \cup {url}, {"storage"}, 3)

\* handlers.rs 690-788.  I/O operations in order: the fetch (1); with a new
\* image, reading the uploaded file (2), the store (3), the update (4);
\* without, the update (2)
update_product(r, st, auth) ==
    LET f == r.form
        id == PathId(r)
        valid == NewProductForm_validate(f)
        update(picture_url, stored, writes, k) ==
            IF Fails(r, k)
            THEN HandlerResult(Response(500, PlainText("Failed to update product")),
                               [st.db EXCEPT !.blobs = stored], writes, {})
            ELSE HandlerResult(Redirect(<<"product", id>>),
                     [st.db EXCEPT
                          !.blobs = stored,
                          !.products = WithRow(@, id, ProductRow(f, picture_url))],
                     writes \cup {"products"}, {})
    IN
    IF Fails(r, 1)
    THEN ReadOnly(Response(500, PlainText("Failed to fetch product")), st)
    ELSE IF id \notin DOMAIN st.db.products
    THEN ReadOnly(Response(404, PlainText("404 - Product Not Found")), st)
    ELSE LET existing_product == st.db.products[id] IN
         IF ~IsOk(valid)
         THEN ReadOnly(Render(r, 400, "product_edit.html", valid.err, auth), st)
         ELSE IF /\ IsSome(f.picture)
                 /\ IsSome(f.picture.val.file_name)
                 /\ f.picture.val.file_name.val # ""
                 /\ is_valid_image_extension(f.picture.val.file_name.val)
         THEN IF Fails(r, 2)
              THEN ReadOnly(Response(500,
                       PlainText("Failed to read uploaded file")), st)
              ELSE LET up == upload_image_to_storage(st.env, st.db.blobs,
                                 f.picture.val.file_name.val, Fails(r, 3))
                   IN  IF IsOk(up.result)
                       THEN update(up.result.val, up.blobs, {"storage"}, 4)
                       ELSE HandlerResult(up.result.err, st.db, StorageFailed, {})
         ELSE update(existing_product.picture_url, st.db.blobs, {}, 2)

----------------------------------------------------------------------------
(* handlers.rs: the preparation handlers that write *)

\* locals that start without the picture of the existing record, which C26
\* excludes
PreparationLocals_NoPicture(picture_url, db, ops) ==
    [form |-> [steps |-> "",
               location |-> "",
               name |-> "",
               prep_type |-> "",
               shift |-> ""],
     db |-> db,
     writes |-> {},
     picture_url |-> NoUrl,
     error |-> None,
     ops |-> ops,
     steps_data |-> <<>>,
     stored_url |-> NoUrl]


\* the locals of create_preparation (382-391) and update_preparation
\* (857-863), with the tables as written so far and the count of database
\* and storage operations performed
PreparationLocals(picture_url, db, ops) ==
    [form |-> [steps |-> "",
               location |-> "",
               name |-> "",
               prep_type |-> "",
               shift |-> ""],
     db |-> db,
     writes |-> {},
     picture_url |-> picture_url,
     error |-> None,
     ops |-> ops,
     steps_data |-> <<>>,
     stored_url |-> NoUrl]

\* steps_data.entry(step_num).or_insert((String::new(), None))
StepEntry(steps_data, n) ==
    IF n \in DOMAIN steps_data THEN steps_data
    ELSE [k \in DOMAIN steps_data \cup {n} |->
             IF k = n THEN [description |-> "", image |-> None]
             ELSE steps_data[k]]

\* the locals after upload_image_to_storage(..)? returned up
AfterUpload(acc, up) ==
    [acc EXCEPT !.ops = @ + 1,
                !.writes = @ \cup (IF IsOk(up.result) THEN {"storage"}
                                   ELSE StorageFailed),
                !.db.blobs = up.blobs,
                !.stored_url = IF IsOk(up.result) THEN up.result.val ELSE @,
                !.error = IF IsOk(up.result) THEN None
                          ELSE Some(up.result.err)]

\* one store through upload_image_to_storage(..)? inside a handler
StoreImage(acc, r, st, filename) ==
    AfterUpload(acc, upload_image_to_storage(st.env, acc.db.blobs, filename,
                                             Fails(r, acc.ops + 1)))

\* picture_url = upload_image_to_storage(..)?: the url of the blob stored
WithPictureUrl(acc, stored) ==
    IF IsSome(stored.error) THEN stored
    ELSE [stored EXCEPT !.picture_url = stored.stored_url]

\* handlers.rs 395-481 (create) and 867-952 (update): one multipart field
ParseField(field, acc, r, st, is_update) ==
    IF field.broken
    THEN [acc EXCEPT !.error =
              Some(Response(400, PlainText("Invalid multipart data")))]
    ELSE IF field.name \in {"steps", "location", "name", "prep_type", "shift"}
    THEN [acc EXCEPT !.form[field.name] = field.value]
    ELSE IF field.name = "picture"
    THEN IF /\ IsSome(field.filename)
            /\ is_valid_image_extension(field.filename.val)
            /\ is_update => (field.filename.val # "" /\ ~field.empty)
         THEN WithPictureUrl(acc, StoreImage(acc, r, st, field.filename.val))
         ELSE acc
    ELSE IF field.name = "step_description"
    THEN IF IsSome(field.num)
         THEN [acc EXCEPT !.steps_data =
                   [StepEntry(@, field.num.val) EXCEPT
                        ![field.num.val].description = field.value]]
         ELSE acc
    ELSE IF field.name = "step_image"
    THEN IF /\ IsSome(field.num)
            /\ IsSome(field.filename)
            /\ is_valid_image_extension(field.filename.val)
            /\ field.filename.val # ""
            /\ ~field.empty
         THEN [acc EXCEPT !.steps_data =
                   [StepEntry(@, field.num.val) EXCEPT
                        ![field.num.val].image = field.filename]]
         ELSE acc
    ELSE acc

\* handlers.rs 394-482 (create) and 866-953 (update): the multipart loop,
\* which `?` leaves at the first error
RECURSIVE ParseMultipart(_, _, _, _, _)
ParseMultipart(fields, acc, r, st, is_update) ==
    IF fields = <<>> \/ IsSome(acc.error) THEN acc
    ELSE ParseMultipart(Tail(fields),
                        ParseField(Head(fields), acc, r, st, is_update),
                        r, st, is_update)

\* handlers.rs 525-547 (create) and 996-1018 (update): the steps in the
\* order of their numbers, renumbered from idx
RECURSIVE CreateSteps(_, _, _, _, _, _)

\* handlers.rs 535-547 (create) and 1006-1018 (update): the step's row, with
\* stored the locals after the step's image, if any, went to the storage
InsertStep(n, nums, idx, acc, stored, preparation_id, r, st) ==
    LET entry == acc.steps_data[n]
        step_picture_url ==
            IF IsSome(entry.image) THEN stored.stored_url ELSE NoUrl
    IN  IF IsSome(stored.error) THEN stored
        ELSE IF Fails(r, stored.ops + 1)
        THEN [stored EXCEPT
                  !.ops = @ + 1,
                  !.error = Some(Response(500,
                      PlainText("Failed to create preparation step")))]
        ELSE CreateSteps(nums \ {n}, idx + 1,
                 [stored EXCEPT
                      !.ops = @ + 1,
                      !.writes = @ \cup {"preparation_steps"},
                      !.db.steps = PreparationStep_create(@,
                          preparation_id, idx, entry.description,
                          step_picture_url)],
                 preparation_id, r, st)

\* handlers.rs 529-533 (create) and 1000-1004 (update): the step's image
CreateStep(n, nums, idx, acc, preparation_id, r, st) ==
    InsertStep(n, nums, idx, acc,
               IF IsSome(acc.steps_data[n].image)
               THEN StoreImage(acc, r, st, acc.steps_data[n].image.val)
               ELSE acc,
               preparation_id, r, st)

\* steps created from the highest submitted number down, which C25 excludes
CreateSteps_Descending(nums, idx, acc, preparation_id, r, st) ==
    IF nums = {} \/ IsSome(acc.error) THEN acc
    ELSE CreateStep(CHOOSE m \in nums : \A k \in nums : m >= k,
                    nums, idx, acc, preparation_id, r, st)


CreateSteps(nums, idx, acc, preparation_id, r, st) ==
    IF nums = {} \/ IsSome(acc.error) THEN acc
    ELSE CreateStep(CHOOSE m \in nums : \A k \in nums : m <= k,
                    nums, idx, acc, preparation_id, r, st)

\* what the handler returns once its locals are final
Finished(acc, response) ==
    HandlerResult(IF IsSome(acc.error) THEN acc.error.val ELSE response,
                  acc.db, acc.writes, {})

\* handlers.rs 484-553: create_preparation once the multipart loop is over
create_preparation_parsed(parsed, r, st, auth) ==
    LET valid == NewPreparationForm_validate(parsed.form)
        id == NewRowId(st.db.preparations)
    IN
    IF IsSome(parsed.error) THEN Finished(parsed, parsed.error.val)
    ELSE IF ~IsOk(valid)
    THEN Finished(parsed,
             Render(r, 400, "preparation_new.html", valid.err, auth))
    ELSE IF Fails(r, parsed.ops + 1)
    THEN Finished(parsed,
             Response(500, PlainText("Failed to create preparation")))
    ELSE Finished(
             CreateSteps(DOMAIN parsed.steps_data, 1,
                 [parsed EXCEPT
                      !.ops = @ + 1,
                      !.writes = @ \cup {"preparations"},
                      !.db.preparations = WithRow(@, id,
                          PreparationRow(parsed.form, parsed.picture_url))],
                 id, r, st),
             Redirect(<<"preparation", id>>))

\* a handler whose writes to the tables are undone when it returns an error
RolledBack(done, st) ==
    IF done.response.status = 303 THEN done
    ELSE [done EXCEPT !.db.preparations = st.db.preparations,
                      !.db.steps = st.db.steps]

\* a create_preparation that runs in a transaction rolled back on failure,
\* which C28 excludes
create_preparation_Atomic(r, st, auth) ==
    RolledBack(
        create_preparation_parsed(
            ParseMultipart(r.form.fields, PreparationLocals(NoUrl, st.db, 0),
                           r, st, FALSE),
            r, st, auth),
        st)

\* handlers.rs 376-553
create_preparation(r, st, auth) ==
    create_preparation_parsed(
        ParseMultipart(r.form.fields, PreparationLocals(NoUrl, st.db, 0),
                       r, st, FALSE),
        r, st, auth)

\* handlers.rs 987-1024: update_preparation once the row is updated
update_preparation_updated(updated, id, r, st) ==
    IF Fails(r, updated.ops + 1)
    THEN Finished(updated,
             Response(500, PlainText("Failed to delete old steps")))
    ELSE Finished(
             CreateSteps(DOMAIN updated.steps_data, 1,
                 [updated EXCEPT
                      !.ops = @ + 1,
                      !.writes = @ \cup {"preparation_steps"},
                      !.db.steps =
                          PreparationStep_delete_by_preparation_id(@, id)],
                 id, r, st),
             Redirect(<<"preparation", id>>))

\* handlers.rs 955-1024: update_preparation once the multipart loop is over
update_preparation_parsed(parsed, id, r, st) ==
    LET valid == NewPreparationForm_validate(parsed.form) IN
    IF IsSome(parsed.error) THEN Finished(parsed, parsed.error.val)
    ELSE IF ~IsOk(valid)
    THEN Finished(parsed,
             Response(400, [text |-> "Validation Error", error |-> valid.err]))
    ELSE IF Fails(r, parsed.ops + 1)
    THEN Finished(parsed,
             Response(500, PlainText("Failed to update preparation")))
    ELSE update_preparation_updated(
             [parsed EXCEPT
                  !.ops = @ + 1,
                  !.writes = @ \cup {"preparations"},
                  !.db.preparations = WithRow(@, id,
                      PreparationRow(parsed.form, parsed.picture_url))],
             id, r, st)

\* an update_preparation that runs in a transaction rolled back on failure,
\* which C21 excludes
update_preparation_Atomic(r, st) ==
    LET id == PathId(r) IN
    IF Fails(r, 1)
    THEN ReadOnly(Response(500, PlainText("Failed to fetch preparation")), st)
    ELSE IF id \notin DOMAIN st.db.preparations
    THEN ReadOnly(Response(404, PlainText("404 - Preparation Not Found")), st)
    ELSE RolledBack(
             update_preparation_parsed(
                 ParseMultipart(r.form.fields,
                     PreparationLocals(st.db.preparations[id].picture_url,
                                       st.db, 1),
                     r, st, TRUE),
                 id, r, st),
             st)


\* an update_preparation that does not look the record up before it parses,
\* stores and updates, which C22 excludes
update_preparation_Unchecked(r, st) ==
    LET id == PathId(r) IN
    IF Fails(r, 1)
    THEN ReadOnly(Response(500, PlainText("Failed to fetch preparation")), st)
    ELSE update_preparation_parsed(
             ParseMultipart(r.form.fields,
                 PreparationLocals(
                     IF id \in DOMAIN st.db.preparations
                     THEN st.db.preparations[id].picture_url ELSE NoUrl,
                     st.db, 1),
                 r, st, TRUE),
             id, r, st)


\* handlers.rs 834-1024
update_preparation(r, st) ==
    LET id == PathId(r) IN
    IF Fails(r, 1)
    THEN ReadOnly(Response(500, PlainText("Failed to fetch preparation")), st)
    ELSE IF id \notin DOMAIN st.db.preparations
    THEN ReadOnly(Response(404, PlainText("404 - Preparation Not Found")), st)
    ELSE update_preparation_parsed(
             ParseMultipart(r.form.fields,
                 PreparationLocals(st.db.preparations[id].picture_url,
                                   st.db, 1),
                 r, st, TRUE),
             id, r, st)

----------------------------------------------------------------------------
(* middleware.rs: the Authentication middleware *)

BearerPrefix == Chars(<<"B", "e", "a", "r", "e", "r", " ">>)

\* a byte outside visible ASCII, which a header value may carry
NonAscii == [byte |-> 255]

\* HeaderValue::to_str().ok(): None unless every byte is visible ASCII
HeaderToStr(h) ==
    IF \E i \in 1..Len(h) : DOMAIN h[i] = {"byte"} THEN None ELSE Some(h)

\* a selection that prefers the cookie, which C5 excludes
SelectToken_CookieFirst(r) ==
    LET header == IF IsSome(r.authorization)
                  THEN HeaderToStr(r.authorization.val) ELSE None
    IN  IF IsSome(r.cookie) THEN r.cookie
        ELSE IF IsSome(header) /\ StartsWith(header.val, BearerPrefix)
        THEN Some(SliceFrom(header.val, Len(BearerPrefix)))
        ELSE None

\* middleware.rs 60-74: the header's token, else the cookie's
SelectToken(r) ==
    LET header == IF IsSome(r.authorization)
                  THEN HeaderToStr(r.authorization.val) ELSE None
        token == IF IsSome(header) /\ StartsWith(header.val, BearerPrefix)
                 THEN Some(SliceFrom(header.val, Len(BearerPrefix)))
                 ELSE None
        token_from_cookie == r.cookie
    IN  IF IsSome(token) THEN token ELSE token_from_cookie

\* an error page sent as 403, which C2 excludes
render_401_error_Forbidden(r) == Response(403, [page |-> "401.html"])

\* an error page whose rendering failure unwinds the request, which C24
\* excludes
render_401_error_Unwrap(r) ==
    IF "render" \in r.faults
    THEN Response(0, PlainText("panic"))
    ELSE Response(401, [page |-> "401.html"])


\* middleware.rs 183-197
render_401_error(r) ==
    IF "render" \in r.faults
    THEN Response(401, PlainText("Authentication required"))
    ELSE Response(401, [page |-> "401.html"])

----------------------------------------------------------------------------
(* main.rs: the routes, in the order of their registration *)

\* guard: the method guard App::route moves onto its resource ("none" for
\* web::resource(..), which is matched by its path alone); method: the
\* method of the resource's one route
Route(path, guard, wrap, method, to) ==
    [method |-> method,
     path |-> path,
     guard |-> guard,
     wrap |-> wrap,
     to |-> to]

Routes ==
    << Route(<<>>, "GET", FALSE, "GET", "index"),
       Route(<<"search">>, "GET", FALSE, "GET", "search"),
       Route(<<"preparations">>, "GET", FALSE, "GET", "preparations_index"),
       Route(<<"login">>, "GET", FALSE, "GET", "login_form"),
       Route(<<"login">>, "POST", FALSE, "POST", "login"),
       Route(<<"register">>, "GET", FALSE, "GET", "register_form"),
       Route(<<"register">>, "POST", FALSE, "POST", "register"),
       Route(<<"logout">>, "GET", FALSE, "GET", "logout"),
       Route(<<"401">>, "GET", FALSE, "GET", "error_401"),
       Route(<<"static", "{tail}">>, "none", FALSE, "GET", "static_files"),
       Route(<<"product", "new">>, "none", TRUE, "GET", "new_product_form"),
       Route(<<"product">>, "none", TRUE, "POST", "create_product"),
       Route(<<"product", "{id}", "edit">>, "none", TRUE, "GET",
             "edit_product_form"),
       Route(<<"product", "{id}", "update">>, "none", TRUE, "POST",
             "update_product"),
       Route(<<"preparation", "new">>, "none", TRUE, "GET",
             "new_preparation_form"),
       Route(<<"preparation">>, "none", TRUE, "POST", "create_preparation"),
       Route(<<"preparation", "{id}", "edit">>, "none", TRUE, "GET",
             "edit_preparation_form"),
       Route(<<"preparation", "{id}", "update">>, "none", TRUE, "POST",
             "update_preparation"),
       Route(<<"product", "{id}">>, "GET", FALSE, "GET", "product_detail"),
       Route(<<"preparation", "{id}">>, "GET", FALSE, "GET",
             "preparation_detail") >>

\* a dynamic segment matches any one segment
Matches(route, r) ==
    /\ Len(route.path) = Len(r.path)
    /\ \A i \in 1..Len(r.path) :
           route.path[i] \in {"{id}", "{tail}", r.path[i]}
    /\ route.guard \in {"none", r.method}

\* the first registered service that matches, if any
FirstMatch(r) ==
    LET hits == { i \in 1..Len(Routes) : Matches(Routes[i], r) } IN
    IF hits = {} THEN None
    ELSE Some(Routes[CHOOSE i \in hits : \A j \in hits : i <= j])

\* the handlers that declare an OptionalAuth parameter
TakesOptionalAuth ==
    {"index",
     "new_product_form",
     "product_detail",
     "preparations_index",
     "new_preparation_form",
     "preparation_detail",
     "edit_product_form",
     "edit_preparation_form",
     "search",
     "login_form",
     "create_product",
     "update_product",
     "create_preparation"}

\* web::Path<Uuid>: the handlers whose path carries an id
TakesPathId(route) == \E i \in 1..Len(route.path) : route.path[i] = "{id}"

IsUuidSegment(s) == \E i \in 1..Len(RowIds) : RowIds[i] = s

Invoke(to, r, st, auth) ==
    CASE to = "index" -> index(r, st, auth)
      [] to = "search" -> search(r, st, auth)
      [] to = "preparations_index" -> preparations_index(r, st, auth)
      [] to = "login_form" -> login_form(r, st, auth)
      [] to = "login" -> login(r, st)
      [] to = "register_form" -> register_form(r, st)
      [] to = "register" -> register(r, st)
      [] to = "logout" -> logout(r, st)
      [] to = "error_401" -> error_401(r, st)
      [] to = "static_files" -> static_files(r, st)
      [] to = "new_product_form" -> new_product_form(r, st, auth)
      [] to = "create_product" -> create_product(r, st, auth)
      [] to = "edit_product_form" -> edit_product_form(r, st, auth)
      [] to = "update_product" -> update_product(r, st, auth)
      [] to = "new_preparation_form" -> new_preparation_form(r, st, auth)
      [] to = "create_preparation" -> create_preparation(r, st, auth)
      [] to = "edit_preparation_form" -> edit_preparation_form(r, st, auth)
      [] to = "update_preparation" -> update_preparation(r, st)
      [] to = "product_detail" -> product_detail(r, st, auth)
      [] to = "preparation_detail" -> preparation_detail(r, st, auth)

\* what the resource's service returns once the handler has returned done
Handled(route, saw, done) ==
    ServiceResult(done.response, route.to, 1, saw,
                  done.db, done.writes, done.tokens)

\* the resource's service: the route's method, the handler's extractors,
\* then the handler
ResourceCall(route, r, st, seen) ==
    LET auth == IF route.to \in TakesOptionalAuth
                THEN OptionalAuth_from_request(r, st) ELSE Ok(Anonymous)
        saw == [seen EXCEPT
                    !.extensions = r.extensions,
                    !.optional_auth =
                        IF route.to \in TakesOptionalAuth
                        THEN Some(auth) ELSE None,
                    !.authenticated_user =
                        Some(AuthenticatedUser_from_request(r))]
    IN
    IF r.method # route.method
    THEN ServiceResult(Response(405, PlainText("")), "none", 0,
                       [seen EXCEPT !.extensions = r.extensions],
                       st.db, {}, {})
    ELSE IF auth.kind = "Panic"
    THEN ServiceResult(Response(0, PlainText("panic")), route.to, 0, saw,
                       st.db, {}, {})
    ELSE IF TakesPathId(route) /\ ~IsUuidSegment(PathId(r))
    THEN ServiceResult(Response(404, PlainText("")), route.to, 0, saw,
                       st.db, {}, {})
    ELSE Handled(route, saw, Invoke(route.to, r, st, auth.val))

\* a gate that lets a request without a token through, which C1 excludes
AuthenticationCall_Open(route, r, st) ==
    LET token == SelectToken(r)
        checked == validate_token(token.val, st.env, st.now)
        seen == [NothingSeen EXCEPT
                     !.selected = Some(token),
                     !.validated = IF IsSome(token) THEN Some(checked)
                                   ELSE None]
    IN
    IF ~IsSome(token) THEN ResourceCall(route, r, st, seen)
    ELSE IF IsOk(checked)
    THEN ResourceCall(route, [r EXCEPT !.extensions = Some(checked.val)],
                      st, seen)
    ELSE ServiceResult(render_401_error(r), "none", 0, seen, st.db, {}, {})

\* a gate that tries the cookie after the header's token failed, which C27
\* excludes
AuthenticationCall_Retry(route, r, st) ==
    LET token == SelectToken(r)
        checked == validate_token(token.val, st.env, st.now)
        again == validate_token(r.cookie.val, st.env, st.now)
        seen == [NothingSeen EXCEPT
                     !.selected = Some(token),
                     !.validated = IF IsSome(token) THEN Some(checked)
                                   ELSE None]
    IN
    IF ~IsSome(token)
    THEN ServiceResult(render_401_error(r), "none", 0, seen, st.db, {}, {})
    ELSE IF checked.kind = "Panic"
    THEN ServiceResult(Response(0, PlainText("panic")), "none", 0, seen,
                       st.db, {}, {})
    ELSE IF IsOk(checked)
    THEN ResourceCall(route, [r EXCEPT !.extensions = Some(checked.val)],
                      st, seen)
    ELSE IF IsSome(r.cookie) /\ IsOk(again)
    THEN ResourceCall(route, [r EXCEPT !.extensions = Some(again.val)],
                      st, seen)
    ELSE ServiceResult(render_401_error(r), "none", 0, seen, st.db, {}, {})


\* middleware.rs 55-97: AuthenticationMiddleware::call
AuthenticationCall(route, r, st) ==
    LET token == SelectToken(r)
        checked == validate_token(token.val, st.env, st.now)
        seen == [NothingSeen EXCEPT
                     !.selected = Some(token),
                     !.validated = IF IsSome(token) THEN Some(checked)
                                   ELSE None]
    IN
    IF ~IsSome(token)
    THEN ServiceResult(render_401_error(r), "none", 0, seen, st.db, {}, {})
    ELSE IF checked.kind = "Panic"
    THEN ServiceResult(Response(0, PlainText("panic")), "none", 0, seen,
                       st.db, {}, {})
    ELSE IF IsOk(checked)
    THEN ResourceCall(route, [r EXCEPT !.extensions = Some(checked.val)],
                      st, seen)
    ELSE ServiceResult(render_401_error(r), "none", 0, seen, st.db, {}, {})

\* an application whose resources are all registered without .wrap(..),
\* which C3 excludes
Dispatch_Unwrapped(r, st) ==
    LET hit == FirstMatch(r) IN
    IF ~IsSome(hit) THEN Answered(Response(404, PlainText("")), st)
    ELSE ResourceCall(hit.val, r, st, NothingSeen)

\* the application's service: the first matching resource, wrapped or not
Dispatch(r, st) ==
    LET hit == FirstMatch(r) IN
    IF ~IsSome(hit) THEN Answered(Response(404, PlainText("")), st)
    ELSE IF hit.val.wrap THEN AuthenticationCall(hit.val, r, st)
    ELSE ResourceCall(hit.val, r, st, NothingSeen)

----------------------------------------------------------------------------
(* The initial state *)

Usernames == {"alice", "bob"}

\* models.rs 311-320: the rows of the users table (registration is disabled,
\* handlers.rs 1212-1229, so the program never adds one)
InitUsers ==
    [u \in Usernames |->
        IF u = "alice"
        THEN [username |-> u,
              is_active |-> TRUE,
              id |-> "uuid-a",
              password_hash |-> BcryptHash("pw-alice", "s1")]
        ELSE [username |-> u,
              is_active |-> TRUE,
              id |-> "uuid-b",
              password_hash |-> BcryptHash("pw-bob", "s2")]]

NoCall == [op |-> "none"]
NoReq == [kind |-> "none"]
NoOut == [kind |-> "none"]

EnvHours == {None, Some("1"), Some("2"), Some("-1"), Some("abc")}

----------------------------------------------------------------------------
(* Token texts a caller can present besides the ones the server issued *)

FarFuture == StartTime + 100 * SecondsPerHour

CraftedClaims ==
    { \* tests::test_expired_token, auth.rs 143-148
      Claims(UuidToString("uuid-a"), "alice",
             StartTime - SecondsPerHour, StartTime - 2 * SecondsPerHour),
      \* expiring at the first instant of the run
      Claims(UuidToString("uuid-a"), "alice", StartTime, StartTime - 1),
      \* a subject in another UUID form, and one that is no UUID
      Claims(UuidText("uuid-b", "simple"), "bob", FarFuture, StartTime),
      Claims(PlainText("admin"), "mallory", FarFuture, StartTime) }

CraftedTokens ==
    { Encode(c, ServerSecret) : c \in CraftedClaims }
    \cup { Encode(Claims(UuidToString("uuid-b"), "bob", FarFuture, StartTime),
                  OtherSecret),
           Encode([exp |-> FarFuture], ServerSecret),
           Chars(<<"x">>),
           <<>> }

----------------------------------------------------------------------------
(* The clock *)

ClockSteps == {1, Leeway, SecondsPerHour}

Tick(d) ==
    /\ ticks < MaxTicks
    /\ now' = now + d
    /\ ticks' = ticks + 1

----------------------------------------------------------------------------
(* The token codec called directly, as auth.rs's tests do *)

IssuedTokens == { i.token : i \in issued }

InitToken ==
    /\ now = StartTime
    /\ ticks = 0
    /\ env \in [JWT_SECRET : {Some(ServerSecret)},
                 JWT_EXPIRATION_HOURS : EnvHours,
                 S3_ENABLED : {None}]
    /\ users = InitUsers
    /\ issued = {}
    /\ codec = NoCall
    /\ jar = None
    /\ req = NoReq
    /\ out = NoOut
    /\ products = <<>>
    /\ preparations = <<>>
    /\ steps = <<>>
    /\ blobs = {}

TokTick ==
    /\ \E d \in ClockSteps : Tick(d)
    /\ UNCHANGED <<env, users, issued, codec, jar, req, out, dbVars>>

TokGenerate ==
    \E uid \in Uuids, uname \in Usernames :
        LET r == generate_token(uid, uname, env, now) IN
        /\ Cardinality(issued) < MaxIssued
        /\ IsOk(r)
        /\ issued' = issued \cup
               {[username |-> uname,
                 user_id |-> uid,
                 token |-> r.val,
                 ttl |-> ExpirationHours(env),
                 at |-> now]}
        /\ codec' = [result |-> r, at |-> now, op |-> "generate"]
        /\ UNCHANGED <<now, ticks, env, users, jar, req, out, dbVars>>

TokValidate ==
    \E t \in IssuedTokens \cup CraftedTokens :
        /\ codec' = [token |-> t,
                     result |-> validate_token(t, env, now),
                     at |-> now,
                     op |-> "validate"]
        /\ UNCHANGED <<now, ticks, env, users, issued, jar, req, out, dbVars>>

NextToken == TokTick \/ TokGenerate \/ TokValidate

SpecToken == InitToken /\ [][NextToken]_vars

----------------------------------------------------------------------------
(* Requests served by the application *)

\* the browser keeps the cookie of the last Set-Cookie; Max-Age 0 removes it
JarAfter(response) ==
    IF ~IsSome(response.set_cookie) THEN jar
    ELSE IF response.set_cookie.val.max_age = Some(0) THEN None
    ELSE Some(response.set_cookie.val.value)

\* no request is being served
Idle == req = NoReq

\* the response has been sent: the request and what it saw are gone
Complete ==
    /\ ~Idle
    /\ req' = NoReq
    /\ out' = NoOut
    /\ UNCHANGED <<now, ticks, env, users, issued, codec, jar, dbVars>>

\* one request from its arrival to its response
Serve(r) ==
    /\ Idle
    /\ \E done \in {Dispatch(r, ServerState)} :
        /\ Cardinality(issued \cup done.tokens) <= MaxIssued
        /\ Cardinality(DOMAIN done.db.products)
             + Cardinality(DOMAIN done.db.preparations) <= MaxRows
        /\ Len(done.db.steps) <= MaxRows + 1
        /\ Cardinality(done.db.blobs) <= MaxRows + 1
        /\ req' = r
        /\ out' = done
        /\ products' = done.db.products
        /\ preparations' = done.db.preparations
        /\ steps' = done.db.steps
        /\ blobs' = done.db.blobs
        /\ issued' = issued \cup done.tokens
        /\ jar' = JarAfter(done.response)
        /\ UNCHANGED <<now, ticks, env, users, codec>>

\* the users table changes only from outside the program
AdminSetActive ==
    \E u \in {"alice"}, b \in BOOLEAN :
        /\ Idle
        /\ users[u].is_active # b
        /\ users' = [users EXCEPT ![u].is_active = b]
        /\ UNCHANGED <<now, ticks, env, issued, codec, jar, req, out, dbVars>>

LoginForms ==
    { [password |-> "pw-alice", username |-> "alice"],
      [password |-> "pw-bob", username |-> "alice"],
      [password |-> "pw-alice", username |-> "carol"] }

Login ==
    \E f \in LoginForms, k \in {0, 1} :
        Serve(Request("POST", <<"login">>, None, jar, f, k, {}))

Logout == Serve(Request("GET", <<"logout">>, None, jar, NoForm, 0, {}))

----------------------------------------------------------------------------
(* The protected and the public routes under every kind of credential *)

LowerBearer == Chars(<<"b", "e", "a", "r", "e", "r", " ">>)
BasicPrefix == Chars(<<"B", "a", "s", "i", "c", " ">>)

ValidCrafted ==
    Encode(Claims(UuidText("uuid-b", "simple"), "bob", FarFuture, StartTime),
           ServerSecret)

\* headers that carry a valid token in another scheme, in none, or followed
\* by a byte outside visible ASCII
OtherAuthorizations ==
    { Some(LowerBearer \o ValidCrafted),
      Some(BasicPrefix \o ValidCrafted),
      Some(ValidCrafted),
      Some(BearerPrefix \o ValidCrafted \o <<NonAscii>>) }

Authorizations ==
    {None}
    \cup { Some(BearerPrefix \o t) : t \in IssuedTokens \cup CraftedTokens }
    \cup OtherAuthorizations

\* cookie values: a valid token, garbage, and a token at its expiry
CraftedCookies ==
    { ValidCrafted, Chars(<<"x">>),
      Encode(Claims(UuidToString("uuid-a"), "alice",
                    StartTime, StartTime - 1), ServerSecret) }

Cookies == {None, jar} \cup { Some(t) : t \in CraftedCookies }

\* the headers of the requests whose 401 page does not render
FaultAuthorizations == {None, Some(BearerPrefix \o Chars(<<"x">>))}

\* the headers of the requests to the public route
PublicAuthorizations == {None, Some(BearerPrefix \o ValidCrafted)}

InitAuth ==
    /\ now = StartTime
    /\ ticks = 0
    /\ env = [JWT_EXPIRATION_HOURS |-> Some("1"),
              JWT_SECRET |-> Some(ServerSecret),
              S3_ENABLED |-> None]
    /\ users = InitUsers
    /\ issued = {}
    /\ codec = NoCall
    /\ jar = None
    /\ req = NoReq
    /\ out = NoOut
    /\ products = <<>>
    /\ preparations = <<>>
    /\ steps = <<>>
    /\ blobs = {}

AuthTick ==
    /\ Idle
    /\ \E d \in ClockSteps : Tick(d)
    /\ UNCHANGED <<env, users, issued, codec, jar, req, out, dbVars>>

\* GET /product/new: wrapped, its handler takes OptionalAuth
Protected ==
    \E a \in Authorizations, c \in Cookies, m \in {"GET", "POST"} :
        Serve(Request(m, <<"product", "new">>, a, c, NoForm, 0, {}))

\* POST /preparation/{id}/update: wrapped, its handler takes no OptionalAuth
ProtectedPost ==
    \E a \in Authorizations, c \in Cookies :
        Serve(Request("POST", <<"preparation", "id-1", "update">>, a, c,
                      NoForm, 0, {}))

\* the middleware's own page does not render
ProtectedFault ==
    \E a \in FaultAuthorizations, c \in Cookies :
        Serve(Request("GET", <<"product", "new">>, a, c, NoForm, 0,
                      {"render"}))

\* GET /: public, its handler takes OptionalAuth
Public ==
    \E a \in PublicAuthorizations, c \in Cookies :
        Serve(Request("GET", <<>>, a, c, NoForm, 0, {}))

NextAuth ==
    \/ Complete
    \/ AuthTick
    \/ AdminSetActive
    \/ Login
    \/ Logout
    \/ Protected
    \/ ProtectedPost
    \/ ProtectedFault
    \/ Public

SpecAuth == InitAuth /\ [][NextAuth]_vars

----------------------------------------------------------------------------
(* Every route of the application, with the tables and the storage *)

ProductText ==
    [location |-> "Dry store",
     supplier_name |-> "Acme",
     product_name |-> "Flour",
     description |-> "Plain flour"]

\* MultipartForm<ProductUploadForm>: the picture is an optional temp file
\* whose file name is itself optional
ProductForm(text, picture) ==
    [location |-> text.location,
     supplier_name |-> text.supplier_name,
     product_name |-> text.product_name,
     description |-> text.description,
     picture |-> picture]

Picture(file_name) == Some([file_name |-> file_name])

ProductForms ==
    { ProductForm(ProductText, p) :
        p \in { None, Picture(Some("photo.PNG")), Picture(Some("payload.exe")),
                Picture(Some("")), Picture(None) } }
    \* two fields that fail validation, the product name first
    \cup { ProductForm([ProductText EXCEPT !.product_name = " ",
                                             !.description = ""], None) }

\* one field of a multipart body: a text field, a file field, or one the
\* parser could not read
Field(name, num, value, filename, empty) ==
    [filename |-> filename,
     name |-> name,
     value |-> value,
     broken |-> FALSE,
     empty |-> empty,
     num |-> num]

TextField(name, value) == Field(name, None, value, None, value = "")
FileField(name, num, filename, empty) == Field(name, num, "", Some(filename), empty)
BrokenField == [Field("", None, "", None, TRUE) EXCEPT !.broken = TRUE]

PreparationText ==
    << TextField("name", "Stock"), TextField("prep_type", "veg"),
       TextField("shift", "both"), TextField("location", "Bench"),
       TextField("steps", "Chop, simmer") >>

\* step 3, with an image, sent before step 1, next to a step field without
\* a number and a field the handlers do not know
StepsForm ==
    [fields |-> PreparationText \o
         << Field("step_description", Some(3), "simmer", None, FALSE),
            FileField("step_image", Some(3), "photo.PNG", FALSE),
            Field("step_description", Some(1), "chop", None, FALSE),
            Field("step_description", None, "lost", None, FALSE),
            Field("csrf", None, "ignored", None, FALSE) >>]

PreparationForms ==
    { [fields |-> fs] : fs \in
        { PreparationText,
          PreparationText \o << FileField("picture", None, "photo.PNG", FALSE) >>,
          PreparationText \o << FileField("picture", None, "photo.PNG", TRUE) >>,
          PreparationText \o << FileField("picture", None, "payload.exe", FALSE) >>,
          PreparationText \o << FileField("picture", None, "", FALSE) >>,
          \* the picture arrives before the fields that fail validation
          << FileField("picture", None, "photo.PNG", FALSE) >> \o Tail(PreparationText),
          PreparationText \o << BrokenField >>,
          \* three fields that fail validation, the preparation type first
          << TextField("name", "Stock"), TextField("prep_type", "pasta"),
             TextField("shift", "dinner"), TextField("location", " "),
             TextField("steps", "Chop, simmer") >>,
          \* a step image that is no image, alone and after a picture
          PreparationText \o
              << Field("step_description", Some(1), "chop", None, FALSE),
                 FileField("step_image", Some(1), "payload.exe", FALSE) >>,
          PreparationText \o
              << FileField("picture", None, "photo.PNG", FALSE),
                 Field("step_description", Some(1), "chop", None, FALSE),
                 FileField("step_image", Some(1), "archive.png.exe", FALSE) >>,
          StepsForm.fields } }

\* the richest body, under which every operation of a handler can fail
FullPreparationForm ==
    [fields |-> PreparationText \o
         << FileField("picture", None, "photo.PNG", FALSE),
            Field("step_description", Some(1), "chop", None, FALSE),
            FileField("step_image", Some(1), "photo.PNG", FALSE) >>]

FailOps == 0..MaxFailOp

\* header and cookie, together: none, a token that verifies, one that
\* expired an hour before the run
Authenticated == <<Some(BearerPrefix \o ValidCrafted), None>>

Credentials ==
    { <<None, None>>,
      Authenticated,
      <<None, Some(Encode(Claims(UuidToString("uuid-a"), "alice",
                                 StartTime - SecondsPerHour,
                                 StartTime - 2 * SecondsPerHour),
                          ServerSecret))>> }

PathSegments == {"id-1", "zzz"}

Paths ==
    { <<>>, <<"search">>, <<"preparations">>, <<"login">>, <<"register">>,
      <<"logout">>, <<"401">>, <<"static", "app.css">>, <<"nowhere">>,
      <<"product">>, <<"preparation">>, <<"product", "new">>,
      <<"preparation", "new">> }
    \cup { <<kind, id>> : kind \in {"product", "preparation"},
                          id \in PathSegments }
    \cup { <<kind, id, page>> : kind \in {"product", "preparation"},
                                id \in PathSegments,
                                page \in {"update", "edit"} }

\* the paths a form posts to, one wrapped path and one public path that
\* take no POST, and one that is not routed
PostPaths ==
    { p \in Paths : p \in {<<"login">>, <<"register">>, <<"product">>,
                           <<"preparation">>, <<"product", "new">>,
                           <<"search">>, <<"nowhere">>}
                    \/ (Len(p) = 3 /\ p[3] = "update") }

WritingPaths == { p \in PostPaths : p[1] \in {"product", "preparation"} }

\* the bodies a client posts to a path
Bodies(path) ==
    IF path = <<"login">> THEN LoginForms
    ELSE IF path[1] = "product" THEN ProductForms
    ELSE IF path[1] = "preparation" THEN PreparationForms
    ELSE {NoForm}

FullBody(path) ==
    IF path[1] = "product"
    THEN ProductForm(ProductText, Picture(Some("photo.PNG")))
    ELSE FullPreparationForm

\* the bodies under which an operation fails: the richest one and, for
\* preparations, the one with two steps
FailingBodies(path) ==
    IF path[1] = "preparation"
    THEN {FullPreparationForm, StepsForm}
    ELSE {FullBody(path)}

InitApp ==
    /\ now = StartTime
    /\ ticks = 0
    /\ env \in [JWT_SECRET : {Some(ServerSecret)},
                 JWT_EXPIRATION_HOURS : {None},
                 S3_ENABLED : {None, Some("true")}]
    /\ users = InitUsers
    /\ issued = {}
    /\ codec = NoCall
    /\ jar = None
    /\ req = NoReq
    /\ out = NoOut
    /\ products = <<>>
    /\ preparations = <<>>
    /\ steps = <<>>
    /\ blobs = {}

\* a GET of any path
Get ==
    \E p \in Paths, c \in Credentials :
        Serve(Request("GET", p, c[1], c[2], NoForm, 0, {}))

\* the template renders, or it does not
FaultSets == {{}, {"render"}}

\* a GET during which a query or the template fails
GetFailing ==
    \E p \in Paths, k \in {0, 1, 2}, faults \in FaultSets :
        /\ (k = 0) # (faults = {})
        /\ Serve(Request("GET", p, Authenticated[1], Authenticated[2],
                         NoForm, k, faults))

\* a POST with each body the path's form can send; without a token that
\* verifies, which the middleware refuses before the body is read, with the
\* richest body alone
Post ==
    \E p \in PostPaths, c \in Credentials :
        \E f \in IF c = Authenticated \/ p \notin WritingPaths
                  THEN Bodies(p) ELSE {FullBody(p)} :
            Serve(Request("POST", p, c[1], c[2], f, 0, {}))

\* a POST to a writing route during which an operation or the template fails
PostFailing ==
    \E p \in WritingPaths, k \in FailOps, faults \in FaultSets :
        \E f \in IF k = 0 THEN Bodies(p) ELSE FailingBodies(p) :
            /\ (k = 0) # (faults = {})
            /\ Serve(Request("POST", p, Authenticated[1], Authenticated[2],
                             f, k, faults))

Next ==
    \/ Complete
    \/ Get
    \/ GetFailing
    \/ Post
    \/ PostFailing

Spec == InitApp /\ [][Next]_vars

----------------------------------------------------------------------------
(* The token codec: C6, C8, C9 (under SpecToken) *)

\* the last call was validate_token on one JWT carrying a Claims payload
ValidatedClaims ==
    /\ codec.op = "validate"
    /\ Len(codec.token) = 1
    /\ DOMAIN codec.token[1] = {"jwt"}
    /\ IsClaims(codec.token[1].jwt.payload)

\* C6: validate_token accepts a token if and only if its signature verifies
\* against the server secret and the time of the call is strictly before
\* the token's exp
C6_AcceptedIffSignedAndBeforeExpiry ==
    ValidatedClaims =>
        (IsOk(codec.result) <=>
            /\ codec.token[1].jwt.key = ServerSecret
            /\ codec.at < codec.token[1].jwt.payload.exp)

\* the issued tokens the last validate_token call was about, while their
\* positive ttl has not elapsed
LiveIssuesValidated ==
    { i \in issued :
        /\ codec.op = "validate"
        /\ codec.token = i.token
        /\ i.ttl > 0
        /\ codec.at < i.at + i.ttl * SecondsPerHour }

\* C8: validate_token applied to what generate_token returned for a user id,
\* a username and a positive ttl succeeds while the ttl has not elapsed, and
\* returns claims whose sub is the user id's string form, whose username is
\* the username given, and whose iat is strictly less than exp
C8_IssueThenValidate ==
    \A i \in LiveIssuesValidated :
        /\ IsOk(codec.result)
        /\ codec.result.val.sub = UuidToString(i.user_id)
        /\ codec.result.val.username = i.username
        /\ codec.result.val.iat < codec.result.val.exp

\* C8: an issued token with a positive ttl has been validated, with success,
\* some time after its issue and before its expiry
C8_Witness ==
    \E i \in LiveIssuesValidated :
        /\ i.at < codec.at
        /\ IsOk(codec.result)

\* C9: a token signed with the server secret whose exp lies in the past is
\* rejected by validate_token as expired and returns no claims
C9_PastExpiryRejected ==
    (/\ ValidatedClaims
     /\ codec.token[1].jwt.key = ServerSecret
     /\ codec.token[1].jwt.payload.exp < codec.at)
        => codec.result = Err("ExpiredSignature")

----------------------------------------------------------------------------
(* The Authentication middleware and the extractors: C1, C2, C4, C5, C7,
   C10 (under SpecAuth) *)

\* the request being served is routed to a resource the middleware wraps
Wrapped(r) == IsSome(FirstMatch(r)) /\ FirstMatch(r).val.wrap

\* the Authorization header is there and its bytes start with "Bearer "
HasBearer(r) ==
    IsSome(r.authorization) /\ StartsWith(r.authorization.val, BearerPrefix)

\* every byte of the header is visible ASCII
Readable(h) == \A i \in 1..Len(h) : DOMAIN h[i] # {"byte"}

\* the identity {user id, username} that claims stand for
Matches_Claims(user, claims) ==
    /\ UuidParseStr(claims.sub) = Ok(user.user_id)
    /\ user.username = claims.username

\* C1: a request to a wrapped route that carries neither an Authorization
\* header starting with "Bearer " nor an auth_token cookie is answered 401,
\* and the wrapped handler is not invoked
C1_NoTokenUnauthorized ==
    (/\ req # NoReq
     /\ Wrapped(req)
     /\ ~HasBearer(req)
     /\ ~IsSome(req.cookie))
        => (out.response.status = 401 /\ out.calls = 0)

\* C1: a request with a Basic header and no cookie got its 401
C1_Witness ==
    /\ req # NoReq
    /\ Wrapped(req)
    /\ IsSome(req.authorization)
    /\ ~HasBearer(req)
    /\ ~IsSome(req.cookie)
    /\ out.response.status = 401
    /\ out.calls = 0

\* C2: a request to a wrapped route whose selected token fails
\* validate_token is answered 401, gets no claims attached, and the wrapped
\* handler is not invoked
C2_InvalidTokenUnauthorized ==
    (/\ req # NoReq
     /\ Wrapped(req)
     /\ IsSome(SelectToken(req))
     /\ ~IsOk(validate_token(SelectToken(req).val, env, now)))
        => /\ out.response.status = 401
           /\ out.extensions = None
           /\ out.calls = 0

\* C2: a request whose token verifies but has expired got its 401
C2_Witness ==
    /\ req # NoReq
    /\ Wrapped(req)
    /\ out.validated = Some(Err("ExpiredSignature"))
    /\ out.response.status = 401
    /\ out.extensions = None
    /\ out.calls = 0

\* C4: when the selected token validates, the handler runs once with the
\* decoded claims attached, its response is the response of the request, and
\* the identity it obtains through OptionalAuth or AuthenticatedUser is the
\* user id and username of those claims
C4_HandlerSeesValidatedIdentity ==
    (/\ req # NoReq
     /\ Wrapped(req)
     /\ req.method = FirstMatch(req).val.method
     /\ IsSome(out.validated)
     /\ IsOk(out.validated.val))
        => /\ out.extensions = Some(out.validated.val.val)
           /\ out.calls = 1
           /\ out.handler_response = Some(out.response)
           /\ (IsSome(out.optional_auth)
                 => /\ IsOk(out.optional_auth.val)
                    /\ IsSome(out.optional_auth.val.val.user)
                         => Matches_Claims(out.optional_auth.val.val.user.val,
                                           out.validated.val.val))
           /\ ((IsSome(out.authenticated_user)
                    /\ IsOk(out.authenticated_user.val))
                 => Matches_Claims(out.authenticated_user.val.val,
                                   out.validated.val.val))

\* the token the middleware selects, as C5 states it
SelectionAsStated(r) ==
    IF HasBearer(r)
    THEN Some(SliceFrom(r.authorization.val, Len(BearerPrefix)))
    ELSE r.cookie

\* C5 as stated: the token is the rest of the Authorization header when
\* the header begins with "Bearer ", else the auth_token cookie's value if
\* there is one, else there is no token
C5_SelectionAsStated ==
    (req # NoReq /\ Wrapped(req)) => out.selected = Some(SelectionAsStated(req))

\* C5, amended: the token is the rest of the Authorization header when the
\* header consists of visible ASCII bytes only and begins with "Bearer ",
\* else the auth_token cookie's value if there is one, else there is no token
C5_SelectionOfReadableHeader ==
    (req # NoReq /\ Wrapped(req))
        => out.selected =
             Some(IF HasBearer(req) /\ Readable(req.authorization.val)
                  THEN SelectionAsStated(req)
                  ELSE req.cookie)

\* C5: a header that begins with "Bearer " and holds a byte outside visible
\* ASCII came with a cookie, and the handler ran on the cookie's token
C5_Witness ==
    /\ req # NoReq
    /\ Wrapped(req)
    /\ HasBearer(req)
    /\ ~Readable(req.authorization.val)
    /\ IsSome(req.cookie)
    /\ out.selected = Some(req.cookie)
    /\ out.calls = 1

\* the issued tokens the request being served presents before their expiry
LiveIssuesPresented ==
    { i \in issued :
        /\ req # NoReq
        /\ Wrapped(req)
        /\ SelectionAsStated(req) = Some(i.token)
        /\ now < i.at + i.ttl * SecondsPerHour }

\* C7: the outcome of validation is a function of the token, the server
\* secret and the time alone, and a token issued at login is accepted on
\* every request to a wrapped route that presents it before its expiry,
\* whatever logouts and changes of the users table came in between
C7_StatelessAcceptance ==
    /\ (req # NoReq /\ IsSome(out.validated))
          => out.validated.val = Decode(out.selected.val.val, ServerSecret, now)
    /\ \A i \in LiveIssuesPresented :
          /\ out.validated = Some(Ok(Claims(UuidToString(i.user_id),
                                            i.username,
                                            i.at + i.ttl * SecondsPerHour,
                                            i.at)))
          /\ out.extensions = Some(out.validated.val.val)
          /\ out.response.status # 401

\* C7: a token issued at login was presented after the logout and after the
\* user was deactivated, and the handler ran
C7_Witness ==
    \E i \in LiveIssuesPresented :
        /\ i.at < now
        /\ jar = None
        /\ ~users[i.username].is_active
        /\ out.calls = 1

\* the identity OptionalAuth is to yield: that of the attached claims, else
\* that of the auth_token cookie validated now, else none
IdentityInOrder ==
    IF IsSome(out.extensions) /\ IsOk(UserOfClaims(out.extensions.val))
    THEN Some(UserOfClaims(out.extensions.val).val)
    ELSE IF /\ IsSome(req.cookie)
            /\ IsOk(Decode(req.cookie.val, ServerSecret, now))
            /\ IsOk(UserOfClaims(Decode(req.cookie.val, ServerSecret, now).val))
    THEN Some(UserOfClaims(Decode(req.cookie.val, ServerSecret, now).val).val)
    ELSE None

----------------------------------------------------------------------------
(* Writes happen behind the middleware only: C3 (under Spec) *)

\* the request just served passed the middleware with a validated token
PassedMiddleware ==
    /\ req' # NoReq
    /\ Wrapped(req')
    /\ IsSome(out'.validated)
    /\ IsOk(out'.validated.val)
    /\ out'.validated.val = validate_token(SelectToken(req').val, env, now)

\* C3: a step that changes the products, preparations or preparation_steps
\* table or the stored uploads, or in which the upload storage adapter is
\* called, serves a request that passed the middleware with a token that
\* validate_token accepted
C3_WritesOnlyBehindMiddleware ==
    [][ (\/ dbVars' # dbVars
         \/ (req' # NoReq /\ out'.writes # {}))
            => PassedMiddleware ]_vars

\* C3: a product with its picture was created by an authenticated request
C3_Witness ==
    /\ req # NoReq
    /\ Wrapped(req)
    /\ IsSome(out.extensions)
    /\ out.validated = Some(Ok(out.extensions.val))
    /\ out.handler = "create_product"
    /\ out.writes = {"products", "storage"}
    /\ DOMAIN products # {}
    /\ blobs # {}

----------------------------------------------------------------------------
(* The AuthenticatedUser extractor: C11 (under SpecAuth) *)

\* C11 as stated: AuthenticatedUser succeeds exactly when claims were
\* attached to the request earlier
C11_SucceedsIffClaimsAttached ==
    (req # NoReq /\ IsSome(out.authenticated_user))
        => (IsOk(out.authenticated_user.val) <=> IsSome(out.extensions))

\* C11: AuthenticatedUser succeeds exactly when claims were attached to the
\* request earlier and their sub parses as a UUID, and then with the user id
\* and username of those claims; otherwise it fails with HTTP 401. It never
\* validates a token itself
C11_SucceedsIffParsableClaimsAttached ==
    (req # NoReq /\ IsSome(out.authenticated_user))
        => /\ IsOk(out.authenticated_user.val)
                <=> (/\ IsSome(out.extensions)
                     /\ IsOk(UuidParseStr(out.extensions.val.sub)))
           /\ IsOk(out.authenticated_user.val)
                => Matches_Claims(out.authenticated_user.val.val,
                                  out.extensions.val)
           /\ ~IsOk(out.authenticated_user.val)
                => out.authenticated_user.val.err.status = 401

\* C11: a route without the middleware was asked with a cookie that
\* validates, and the extractor failed with 401 all the same
C11_Witness ==
    /\ req # NoReq
    /\ ~Wrapped(req)
    /\ IsSome(req.cookie)
    /\ IsOk(validate_token(req.cookie.val, env, now))
    /\ out.extensions = None
    /\ out.authenticated_user
         = Some(Err(Response(401, PlainText("Authentication required"))))

----------------------------------------------------------------------------
(* Startup and the server secret: SpecStartup, C12 *)

DatabaseUrls == {None, Some("postgres://db")}

Secrets == {None, Some(ServerSecret)}

\* main.rs 14-55: what main requires of the environment before it binds the
\* server: DATABASE_URL (expect, line 22-23); HOST, PORT and UPLOAD_DIR have
\* defaults, and JWT_SECRET is not read
main(e) ==
    IF ~IsSome(e.DATABASE_URL)
    THEN Panic("DATABASE_URL must be set in .env file")
    ELSE Ok("serving")

\* the process got past startup and answers requests
Serving == IsOk(main(env))

InitStartup ==
    /\ now = StartTime
    /\ ticks = 0
    /\ env \in {[JWT_EXPIRATION_HOURS |-> Some("1"),
                 JWT_SECRET |-> s,
                 S3_ENABLED |-> None,
                 DATABASE_URL |-> d] : d \in DatabaseUrls, s \in Secrets}
    /\ users = InitUsers
    /\ issued = {}
    /\ codec = NoCall
    /\ jar = None
    /\ req = NoReq
    /\ out = NoOut
    /\ products = <<>>
    /\ preparations = <<>>
    /\ steps = <<>>
    /\ blobs = {}

StartupComplete == Serving /\ Complete

StartupTick == Serving /\ AuthTick

StartupLogin == Serving /\ Login

StartupProtected == Serving /\ Protected

StartupPublic == Serving /\ Public

NextStartup ==
    \/ StartupComplete
    \/ StartupTick
    \/ StartupLogin
    \/ StartupProtected
    \/ StartupPublic

SpecStartup == InitStartup /\ [][NextStartup]_vars

\* C12: a process without JWT_SECRET does not get past startup, so no
\* request is ever served without the secret and no request fails on its
\* absence
C12_MissingSecretFatalAtStartup ==
    /\ ~IsSome(env.JWT_SECRET) => ~Serving
    /\ req # NoReq => /\ IsSome(env.JWT_SECRET)
                      /\ out.response # Response(0, PlainText("panic"))

\* C12: the server runs without JWT_SECRET, and a login with the right
\* password panicked in generate_token
C12_PanicPerRequest ==
    /\ ~IsSome(env.JWT_SECRET)
    /\ Serving
    /\ req # NoReq
    /\ req.path = <<"login">>
    /\ out.handler = "login"
    /\ out.response = Response(0, PlainText("panic"))

----------------------------------------------------------------------------
(* Uploads: C13, C14, C15, C16 (under Spec) *)

\* the extension of the file name, compared without regard to case, is one
\* of jpg, jpeg, png, webp
HasImageExtension(filename) ==
    /\ IsSome(Extension(filename))
    /\ ToLowercase(Extension(filename).val) \in {"jpg", "webp", "png", "jpeg"}

\* the file names the request's form carries
SubmittedFilenames(r) ==
    IF "picture" \in DOMAIN r.form
    THEN IF IsSome(r.form.picture) /\ IsSome(r.form.picture.val.file_name)
         THEN {r.form.picture.val.file_name.val}
         ELSE {}
    ELSE IF "fields" \in DOMAIN r.form
    THEN { r.form.fields[i].filename.val :
             i \in { j \in DOMAIN r.form.fields :
                       IsSome(r.form.fields[j].filename) } }
    ELSE {}

\* the handlers that accept an upload
UploadHandlers ==
    {"create_product", "update_product", "create_preparation",
     "update_preparation"}

\* C13: the storage adapter is invoked only with a file name whose
\* extension, compared without regard to case, is one of jpg, jpeg, png,
\* webp: every stored blob carries such an extension, a request none of whose
\* file names has one never reaches the adapter, and photo.PNG does reach it
C13_AdapterOnlyForImageExtensions ==
    /\ \A b \in blobs : ToLowercase(b.ext) \in {"jpg", "webp", "png", "jpeg"}
    /\ (req # NoReq /\ "storage" \in out.writes)
          => /\ out.handler \in UploadHandlers
             /\ \E f \in SubmittedFilenames(req) : HasImageExtension(f)
    /\ (/\ req # NoReq
        /\ out.calls = 1
        /\ out.handler = "create_product"
        /\ IsOk(NewProductForm_validate(req.form))
        /\ SubmittedFilenames(req) = {"photo.PNG"}
        /\ req.fail_op # 1)
          => "storage" \in out.writes

\* C13: photo.PNG went to the storage while, in the same request, a step
\* image named archive.png.exe did not
C13_Witness ==
    /\ req # NoReq
    /\ out.handler = "create_preparation"
    /\ SubmittedFilenames(req) = {"photo.PNG", "archive.png.exe"}
    /\ "storage" \in out.writes
    /\ Cardinality(blobs) = 1
    /\ \A b \in blobs : b.ext = "PNG"
    /\ DOMAIN steps # {}

\* the request's form carries a file whose extension is outside the allowed
\* set
SubmitsOtherFile(r) ==
    \E f \in SubmittedFilenames(r) :
        IsSome(Extension(f)) /\ ~HasImageExtension(f)

\* the record the request addresses exists, where it addresses one
AddressesRecord(r) ==
    Len(r.path) = 3
        => (r.path[2] \in IF r.path[1] = "product" THEN DOMAIN products
                          ELSE DOMAIN preparations)

\* C14: in create_product, update_product, create_preparation and
\* update_preparation a request that submits a file whose extension is
\* outside the allowed set is, when no operation and no template fails,
\* answered 400 and writes no product, no preparation and no step
C14_OtherFileRejected ==
    (/\ req # NoReq
     /\ out.calls = 1
     /\ out.handler \in UploadHandlers
     /\ AddressesRecord(req)
     /\ req.fail_op = 0
     /\ req.faults = {}
     /\ SubmitsOtherFile(req))
        => /\ out.response.status = 400
           /\ out.writes \cap {"products", "preparations",
                               "preparation_steps"} = {}

\* C14: update_product was sent payload.exe with valid fields, answered
\* with the redirect and wrote the product
C14_OtherFileIgnored ==
    /\ req # NoReq
    /\ out.calls = 1
    /\ out.handler = "update_product"
    /\ SubmittedFilenames(req) = {"payload.exe"}
    /\ out.response.status = 303
    /\ "products" \in out.writes
    /\ "storage" \notin out.writes

\* C14 for create_product alone, the handler that does reject the file
C14_CreateProductRejects ==
    (/\ req # NoReq
     /\ out.calls = 1
     /\ out.handler = "create_product"
     /\ req.faults = {}
     /\ SubmitsOtherFile(req))
        => /\ out.response.status = 400
           /\ out.writes = {}

\* the asset URLs the rows of the three tables reference
ReferencedUrls(product_rows, preparation_rows, step_rows) ==
    ({ product_rows[i].picture_url : i \in DOMAIN product_rows }
         \cup { preparation_rows[i].picture_url : i \in DOMAIN preparation_rows }
         \cup { step_rows[i].picture_url : i \in DOMAIN step_rows })
        \ {NoUrl}

\* C15: a product, preparation or step that references an asset URL is
\* written only after the store of that blob succeeded: after every request
\* each referenced URL is a stored blob, and a request during which the
\* adapter failed ends with 500 without having written the record that was
\* to reference the blob (no product; no preparation with a new picture when
\* it was the first store of the request; no step with a picture)
C15_RecordOnlyAfterStore ==
    [][ req' # NoReq
          => /\ ReferencedUrls(products', preparations', steps')
                    \subseteq blobs'
             /\ "storage failed" \in out'.writes
                  => /\ out'.response.status = 500
                     /\ products' = products
                     /\ blobs' = blobs
                          => \A id \in DOMAIN preparations' :
                                 preparations'[id].picture_url # NoUrl
                                     => /\ id \in DOMAIN preparations
                                        /\ preparations[id].picture_url
                                               = preparations'[id].picture_url
                     /\ \A i \in DOMAIN steps' :
                            steps'[i].picture_url # NoUrl
                                => \E j \in DOMAIN steps : steps[j] = steps'[i]
      ]_vars

\* C15: the picture of a new preparation was stored and the preparation
\* written, then the store of its step image failed: 500, and no step
C15_Witness ==
    /\ req # NoReq
    /\ out.handler = "create_preparation"
    /\ "storage failed" \in out.writes
    /\ out.response.status = 500
    /\ Cardinality(blobs) = 1
    /\ DOMAIN preparations # {}
    /\ \A i \in DOMAIN preparations : preparations[i].picture_url \in blobs
    /\ steps = <<>>

\* C16: every successful store returns a URL no earlier store returned, also
\* for the same bytes and file name, so no blob is overwritten or removed: a
\* request whose stores all succeeded leaves every old blob in place and adds
\* one blob per store (two for a preparation sent with a picture and a step
\* image of the same name), and no two blobs share their UUID
C16_StoresNeverCollide ==
    [][ req' # NoReq
          => /\ blobs \subseteq blobs'
             /\ \A b, c \in blobs' : b.uuid = c.uuid => b = c
             /\ ("storage" \in out'.writes /\ "storage failed" \notin out'.writes)
                  => Cardinality(blobs') > Cardinality(blobs)
             /\ (/\ req'.form = FullPreparationForm
                 /\ out'.handler \in {"create_preparation", "update_preparation"}
                 /\ out'.response.status = 303)
                  => Cardinality(blobs') = Cardinality(blobs) + 2
      ]_vars

\* C16: a product stored with a picture was updated with a new picture of
\* the same name: the row references the new blob and the old one is still
\* in storage
C16_Witness ==
    /\ req # NoReq
    /\ out.handler = "update_product"
    /\ SubmittedFilenames(req) = {"photo.PNG"}
    /\ out.response.status = 303
    /\ Cardinality(blobs) = 2
    /\ \A i \in DOMAIN products :
           /\ products[i].picture_url \in blobs
           /\ products[i].picture_url.uuid = 2

----------------------------------------------------------------------------
(* Login and logout: C17, C18 (under SpecAuth) *)

\* a login form was posted and the users table answered
LoginAttempt ==
    /\ req # NoReq
    /\ req.method = "POST"
    /\ req.path = <<"login">>
    /\ req.fail_op = 0

\* the user named in the form exists, is active, and the password of the
\* form is the one the stored hash was made from
Credible ==
    /\ req.form.username \in DOMAIN users
    /\ users[req.form.username].is_active
    /\ BcryptVerify(req.form.password,
                    users[req.form.username].password_hash)

\* the one answer to every login that is refused
InvalidCredentials ==
    Response(401, [username |-> None,
                   page |-> "login.html",
                   error |-> "Invalid username or password",
                   is_authenticated |-> FALSE])

\* C17: every login that is refused, for an unknown or inactive username as
\* for a wrong password, gets the same response, 401 with the one generic
\* message and no cookie; the auth_token cookie is set only when the user
\* exists, is active and the password verifies, and then it holds a token
\* whose claims are that user's id and username
C17_RefusalsIndistinguishable ==
    LoginAttempt
        => /\ ~Credible => out.response = InvalidCredentials
           /\ IsSome(out.response.set_cookie)
                => /\ Credible
                   /\ out.response.set_cookie.val.name = "auth_token"
                   /\ IsOk(validate_token(out.response.set_cookie.val.value,
                                          env, now))
                   /\ Matches_Claims(
                          [username |-> req.form.username,
                           user_id |-> users[req.form.username].id],
                          validate_token(out.response.set_cookie.val.value,
                                         env, now).val)
           /\ Credible => IsSome(out.response.set_cookie)

\* C17: alice was made inactive and logged in with her password: the
\* answer is the one a wrong password gets
C17_Witness ==
    /\ LoginAttempt
    /\ req.form.username = "alice"
    /\ ~users["alice"].is_active
    /\ BcryptVerify(req.form.password, users["alice"].password_hash)
    /\ out.response = InvalidCredentials
    /\ out.response.set_cookie = None

\* the answer of logout: a redirect to / that re-issues auth_token with an
\* empty value, path /, http-only, max-age 0
LoggedOut ==
    [status |-> 303,
     body |-> [text |-> ""],
     location |-> Some(<<>>),
     set_cookie |-> Some([path |-> "/",
                          name |-> "auth_token",
                          value |-> <<>>,
                          max_age |-> Some(0),
                          http_only |-> TRUE])]

\* the request just served came from a client that sends no Authorization
\* header and the cookie of its jar, which was empty
CookieOnlyWithEmptyJar ==
    /\ req' # NoReq
    /\ jar = None
    /\ req'.authorization = None
    /\ req'.cookie = jar

\* C18: logout answers every request, with or without a token, with the
\* redirect to / that re-issues auth_token with an empty value, path /,
\* http-only and max-age 0; the client that applies it has no cookie left,
\* and keeps none until a login succeeds; while it has none, its requests to
\* a wrapped route are answered 401 without reaching the handler, and the
\* public pages it asks for see no identity
C18_LogoutClearsCookie ==
    [][ /\ (req' # NoReq /\ req'.method = "GET" /\ req'.path = <<"logout">>)
              => (out'.response = LoggedOut /\ jar' = None)
        /\ (jar = None /\ jar' # None)
              => /\ req'.method = "POST"
                 /\ req'.path = <<"login">>
                 /\ out'.response.status = 303
                 /\ out'.tokens # {}
        /\ (CookieOnlyWithEmptyJar /\ Wrapped(req'))
              => (out'.response.status = 401 /\ out'.calls = 0)
        /\ (CookieOnlyWithEmptyJar /\ IsSome(out'.optional_auth))
              => out'.optional_auth = Some(Ok([user |-> None]))
      ]_vars

\* C18: a client that held a token asked for /logout, and its jar is empty
C18_Witness ==
    /\ req # NoReq
    /\ req.path = <<"logout">>
    /\ IsSome(req.cookie)
    /\ IsOk(validate_token(req.cookie.val, env, now))
    /\ out.response = LoggedOut
    /\ jar = None

----------------------------------------------------------------------------
(* auth.rs: password hashing, SpecPassword, C19 *)

\* 71 bytes, the longest password bcrypt reads whole
Bytes71 ==
    "aaaaaaaaaaaaaaaaaaaaaaaaaaaaaaaaaaaaaaaaaaaaaaaaaaaaaaaaaaaaaaaaaaaaaaa"

\* passwords: empty, short, of 71 and 72 bytes, and two of 73 bytes that
\* differ in their last byte
Passwords ==
    { "", "pw-alice", "pw-bob", Bytes71, Bytes71 \o "a",
      Bytes71 \o "ax", Bytes71 \o "ay" }

\* the salts bcrypt::hash may draw
Salts == {"s3", "s1", "s2"}

InitPassword ==
    /\ now = StartTime
    /\ ticks = 0
    /\ env = [JWT_EXPIRATION_HOURS |-> None,
              JWT_SECRET |-> Some(ServerSecret),
              S3_ENABLED |-> None]
    /\ users = InitUsers
    /\ issued = {}
    /\ codec = NoCall
    /\ jar = None
    /\ req = NoReq
    /\ out = NoOut
    /\ products = <<>>
    /\ preparations = <<>>
    /\ steps = <<>>
    /\ blobs = {}

\* hash_password(p)
PwHash ==
    \E p \in Passwords, s \in Salts :
        /\ codec' = [password |-> p,
                     result |-> hash_password(p, s),
                     op |-> "hash_password"]
        /\ UNCHANGED <<now, ticks, env, users, issued, jar, req, out, dbVars>>

\* verify_password(p2, h) for the hash h just made
PwVerify ==
    /\ codec.op = "hash_password"
    /\ IsOk(codec.result)
    /\ \E p2 \in Passwords :
           codec' = [password |-> p2,
                     hash |-> codec.result.val,
                     result |-> verify_password(p2, codec.result.val),
                     op |-> "verify_password",
                     hashed |-> codec.password]
    /\ UNCHANGED <<now, ticks, env, users, issued, jar, req, out, dbVars>>

NextPassword == PwHash \/ PwVerify

SpecPassword == InitPassword /\ [][NextPassword]_vars

\* C19: hash_password succeeds, and verify_password(p2, hash_password(p1))
\* is Ok(true) when p2 = p1 and Ok(false) when p2 differs from p1, never an
\* error
C19_VerifiesExactlyTheHashedPassword ==
    /\ codec.op = "hash_password" => IsOk(codec.result)
    /\ codec.op = "verify_password"
          => codec.result = Ok(codec.password = codec.hashed)

\* C19: a password of 73 bytes was hashed, and another one that differs
\* from it in the 73rd byte verified against the hash
C19_LongPasswordsCollide ==
    /\ codec.op = "verify_password"
    /\ Len(codec.hashed) = BcryptMaxBytes + 1
    /\ Len(codec.password) = BcryptMaxBytes + 1
    /\ codec.password # codec.hashed
    /\ codec.result = Ok(TRUE)

\* C19 for passwords that differ within their first 72 bytes, where it
\* holds
C19_WithinBcryptLimit ==
    (/\ codec.op = "verify_password"
     /\ BcryptKey(codec.password) # BcryptKey(codec.hashed)
          \/ codec.password = codec.hashed)
        => codec.result = Ok(codec.password = codec.hashed)

----------------------------------------------------------------------------
(* Two update_preparation requests at once: SpecConcurrent, C20 *)

\* the requests in flight: req and out hold one entry for each
Tasks == {"B", "A"}

\* the preparation both requests update
SharedId == "id-1"

StepText(n, description) ==
    Field("step_description", Some(n), description, None, FALSE)

\* the body the preparation was created with, and the two bodies of the
\* updates: another name with two steps, and another with one
StoredForm == [fields |-> PreparationText \o << StepText(1, "rinse") >>]

StockForm ==
    [fields |-> << TextField("name", "Stock") >> \o Tail(PreparationText)
                    \o << StepText(1, "chop"), StepText(2, "simmer") >>]

BrothForm ==
    [fields |-> << TextField("name", "Broth") >> \o Tail(PreparationText)
                    \o << StepText(1, "boil") >>]

UpdateForms == {StockForm, BrothForm}

UpdateRequest(form) ==
    Request("POST", <<"preparation", SharedId, "update">>,
            Authenticated[1], Authenticated[2], form, 0, {})

\* the server before the preparation existed
EmptyState ==
    [now |-> StartTime,
     env |-> [JWT_EXPIRATION_HOURS |-> None,
              JWT_SECRET |-> Some(ServerSecret),
              S3_ENABLED |-> None],
     users |-> InitUsers,
     db |-> [products |-> <<>>, preparations |-> <<>>,
             steps |-> <<>>, blobs |-> {}]]

\* the tables once create_preparation has stored the preparation
StoredDb ==
    create_preparation(
        Request("POST", <<"preparation">>, Authenticated[1], Authenticated[2],
                StoredForm, 0, {}),
        EmptyState, Anonymous).db

\* a handler that has not yet made its first query
NotStarted ==
    [response |-> None,
     idx |-> 1,
     pc |-> "fetch",
     locals |-> PreparationLocals(NoUrl, StoredDb, 0),
     todo |-> {},
     began_after |-> {},
     finished_after |-> {}]

InitConcurrent ==
    /\ now = StartTime
    /\ ticks = 0
    /\ env = EmptyState.env
    /\ users = InitUsers
    /\ issued = {}
    /\ codec = NoCall
    /\ jar = None
    /\ req \in [Tasks -> { UpdateRequest(f) : f \in UpdateForms }]
    /\ out = [t \in Tasks |-> NotStarted]
    /\ products = StoredDb.products
    /\ preparations = StoredDb.preparations
    /\ steps = StoredDb.steps
    /\ blobs = StoredDb.blobs

\* the requests that have been answered
Answered_Tasks == { t \in Tasks : out[t].pc = "done" }

\* the handler returns response
Returned(t, parsed, response) ==
    [out[t] EXCEPT !.pc = "done",
                   !.locals = parsed,
                   !.finished_after = Answered_Tasks,
                   !.response = Some(response)]

\* handlers.rs 840-966 once the multipart loop is over: the parse error, the
\* validation error, or on to the update
AfterParse(t, parsed) ==
    IF IsSome(parsed.error) THEN Returned(t, parsed, parsed.error.val)
    ELSE IF ~IsOk(NewPreparationForm_validate(parsed.form))
    THEN Returned(t, parsed,
             Response(400, [text |-> "Validation Error",
                            error |-> NewPreparationForm_validate(parsed.form).err]))
    ELSE [out[t] EXCEPT !.pc = "update",
                        !.locals = parsed,
                        !.began_after = Answered_Tasks]

\* handlers.rs 840-966: Preparation::get_by_id, then the multipart loop and
\* the validation, which touch no table
ConFetch(t) ==
    /\ out[t].pc = "fetch"
    /\ IF SharedId \notin DOMAIN preparations
       THEN /\ out' = [out EXCEPT ![t] = Returned(t, out[t].locals,
                           Response(404, PlainText("404 - Preparation Not Found")))]
            /\ blobs' = blobs
       ELSE \E parsed \in { ParseMultipart(req[t].form.fields,
                                PreparationLocals(
                                    preparations[SharedId].picture_url,
                                    ServerState.db, 1),
                                req[t], ServerState, TRUE) } :
                /\ out' = [out EXCEPT ![t] = AfterParse(t, parsed)]
                /\ blobs' = parsed.db.blobs
    /\ UNCHANGED <<now, ticks, env, users, issued, codec, jar, req,
                   products, preparations, steps>>

\* handlers.rs 970-985: Preparation::update
ConUpdate(t) ==
    /\ out[t].pc = "update"
    /\ preparations' = WithRow(preparations, SharedId,
                           PreparationRow(out[t].locals.form,
                                          out[t].locals.picture_url))
    /\ out' = [out EXCEPT ![t].pc = "delete"]
    /\ UNCHANGED <<now, ticks, env, users, issued, codec, jar, req,
                   products, steps, blobs>>

\* handlers.rs 987-993: PreparationStep::delete_by_preparation_id, and the
\* steps sorted for the loop
ConDelete(t) ==
    /\ out[t].pc = "delete"
    /\ steps' = PreparationStep_delete_by_preparation_id(steps, SharedId)
    /\ out' = [out EXCEPT ![t].pc = "steps",
                          ![t].todo = DOMAIN out[t].locals.steps_data,
                          ![t].idx = 1]
    /\ UNCHANGED <<now, ticks, env, users, issued, codec, jar, req,
                   products, preparations, blobs>>

\* handlers.rs 999-1018: one round of the loop, the step's image stored and
\* PreparationStep::create
ConCreateStep(t) ==
    /\ out[t].pc = "steps"
    /\ out[t].todo # {}
    /\ \E n \in { m \in out[t].todo : \A k \in out[t].todo : m <= k } :
        \E up \in { IF IsSome(out[t].locals.steps_data[n].image)
                    THEN upload_image_to_storage(env, blobs,
                             out[t].locals.steps_data[n].image.val, FALSE)
                    ELSE Stored(Ok(NoUrl), blobs) } :
            /\ blobs' = up.blobs
            /\ steps' = PreparationStep_create(steps, SharedId, out[t].idx,
                            out[t].locals.steps_data[n].description,
                            up.result.val)
            /\ out' = [out EXCEPT ![t].todo = @ \ {n},
                                  ![t].idx = @ + 1]
    /\ UNCHANGED <<now, ticks, env, users, issued, codec, jar, req,
                   products, preparations>>

\* handlers.rs 1020-1023: the redirect
ConRespond(t) ==
    /\ out[t].pc = "steps"
    /\ out[t].todo = {}
    /\ out' = [out EXCEPT ![t] =
                   Returned(t, out[t].locals,
                            Redirect(<<"preparation", SharedId>>))]
    /\ UNCHANGED <<now, ticks, env, users, issued, codec, jar, req, dbVars>>

NextConcurrent ==
    \E t \in Tasks :
        \/ ConFetch(t)
        \/ ConUpdate(t)
        \/ ConDelete(t)
        \/ ConCreateStep(t)
        \/ ConRespond(t)

SpecConcurrent == InitConcurrent /\ [][NextConcurrent]_vars

\* both requests have been answered
AllAnswered == Answered_Tasks = Tasks

\* the request that was answered last
LastAnswered == CHOOSE t \in Tasks : out[t].finished_after = Tasks \ {t}

\* the tables update_preparation leaves when it serves request t alone
Alone(t) ==
    update_preparation(req[t], [EmptyState EXCEPT !.db = StoredDb]).db

\* the rows of a table, whatever their order
Rows(table) == { table[i] : i \in DOMAIN table }

\* the tables hold what the request answered last would have left alone
LastWriterWon ==
    /\ preparations = Alone(LastAnswered).preparations
    /\ Len(steps) = Len(Alone(LastAnswered).steps)
    /\ Rows(steps) = Rows(Alone(LastAnswered).steps)

\* C20: when two update_preparation requests for the same preparation have
\* both been answered, however their database operations interleaved, the
\* preparation row and its steps are those the request answered last would
\* have produced on its own
C20_LastWriterWins == AllAnswered => LastWriterWon

\* C20: both requests were answered, the one with the single step "boil"
\* last, and the steps "chop" and "simmer" of the other are still there
C20_StepsOfBothRemain ==
    /\ AllAnswered
    /\ req[LastAnswered].form = BrothForm
    /\ \E i \in DOMAIN steps : steps[i].description = "boil"
    /\ \E i \in DOMAIN steps : steps[i].description = "chop"
    /\ \E i \in DOMAIN steps : steps[i].description = "simmer"

\* C20 for two requests of which one began after the other was answered,
\* where it holds
C20_OneAfterTheOther ==
    (AllAnswered /\ \E t \in Tasks : out[t].began_after # {})
        => LastWriterWon

----------------------------------------------------------------------------
(* What the body of a request submits, and the operations a preparation
   handler performs for it *)

\* the text fields every valid preparation body of the run carries
SubmittedText ==
    [steps |-> "Chop, simmer",
     location |-> "Bench",
     name |-> "Stock",
     prep_type |-> "veg",
     shift |-> "both"]

\* the value the multipart body gives a text field: that of the last part
\* of that name, or the empty string the handler's local starts with
TextOf(fields, name) ==
    LET parts == { i \in DOMAIN fields : fields[i].name = name } IN
    IF parts = {} THEN ""
    ELSE fields[CHOOSE i \in parts : \A j \in parts : j <= i].value

\* the part carries the image of a step: a step number, a file name with an
\* image extension, and bytes
CarriesStepImage(field) ==
    /\ field.name = "step_image"
    /\ IsSome(field.num)
    /\ IsSome(field.filename)
    /\ field.filename.val # ""
    /\ HasImageExtension(field.filename.val)
    /\ ~field.empty

\* the step numbers the body submits, in description and in image fields
SubmittedNumbers(fields) ==
    { fields[i].num.val :
        i \in { j \in DOMAIN fields :
                  \/ fields[j].name = "step_description" /\ IsSome(fields[j].num)
                  \/ CarriesStepImage(fields[j]) } }

\* the numbers of a set in ascending order
RECURSIVE Ascending(_)
Ascending(S) ==
    IF S = {} THEN <<>>
    ELSE LET least == CHOOSE m \in S : \A k \in S : m <= k
         IN  <<least>> \o Ascending(S \ {least})

\* the description the body submits for step n: that of the last
\* description field with that number, or none
DescriptionOf(fields, n) ==
    LET parts == { i \in DOMAIN fields :
                     /\ fields[i].name = "step_description"
                     /\ fields[i].num = Some(n) }
    IN  IF parts = {} THEN ""
        ELSE fields[CHOOSE i \in parts : \A j \in parts : j <= i].value

\* the rows of the step table that belong to the preparation, in the order
\* of their insertion
StepsOf(step_rows, id) ==
    SelectSeq(step_rows, LAMBDA s : s.preparation_id = id)

\* the step numbers for which the body carries an image
StepImageNumbers(r) ==
    IF "fields" \in DOMAIN r.form
    THEN { r.form.fields[i].num.val :
             i \in { j \in DOMAIN r.form.fields :
                       CarriesStepImage(r.form.fields[j]) } }
    ELSE {}

\* the body carries a new main picture: a picture part with a file name
\* that is not empty and has an image extension and, in a preparation body,
\* with bytes
CarriesNewPicture(r) ==
    IF "fields" \in DOMAIN r.form
    THEN \E i \in DOMAIN r.form.fields :
             /\ r.form.fields[i].name = "picture"
             /\ IsSome(r.form.fields[i].filename)
             /\ r.form.fields[i].filename.val # ""
             /\ HasImageExtension(r.form.fields[i].filename.val)
             /\ ~r.form.fields[i].empty
    ELSE /\ IsSome(r.form.picture)
         /\ IsSome(r.form.picture.val.file_name)
         /\ r.form.picture.val.file_name.val # ""
         /\ HasImageExtension(r.form.picture.val.file_name.val)

\* the picture part create_preparation stores: one whose file name has an
\* image extension
CarriesPictureOnCreate(r) ==
    \E i \in DOMAIN r.form.fields :
        /\ r.form.fields[i].name = "picture"
        /\ IsSome(r.form.fields[i].filename)
        /\ HasImageExtension(r.form.fields[i].filename.val)

\* the operations a preparation handler performs before its first step:
\* the store of the picture, if any, and the insert (create) or the fetch,
\* the update and the delete (update)
OpsBeforeSteps(r, handler) ==
    IF handler = "update_preparation"
    THEN 3 + (IF CarriesNewPicture(r) THEN 1 ELSE 0)
    ELSE 1 + (IF CarriesPictureOnCreate(r) THEN 1 ELSE 0)

\* for each operation of the step loop, the position of the step it belongs
\* to: the store of the step's image, if it has one, then its insert
RECURSIVE OpsOfSteps(_, _, _)
OpsOfSteps(numbers, images, k) ==
    IF k > Len(numbers) THEN <<>>
    ELSE (IF numbers[k] \in images THEN <<k, k>> ELSE <<k>>)
             \o OpsOfSteps(numbers, images, k + 1)

\* the position of the step whose store or insert is the operation of the
\* request that fails, 0 when it is no operation of a step
FailedStep(r, handler) ==
    LET ops == OpsOfSteps(Ascending(SubmittedNumbers(r.form.fields)),
                          StepImageNumbers(r), 1)
        at == r.fail_op - OpsBeforeSteps(r, handler)
    IN  IF at \in DOMAIN ops THEN ops[at] ELSE 0

\* the rows are the first of the submitted steps, in ascending order of the
\* submitted numbers and numbered from 1
AsSubmitted(fields, saved) ==
    /\ Len(saved) <= Cardinality(SubmittedNumbers(fields))
    /\ \A k \in DOMAIN saved :
           /\ saved[k].step_number = k
           /\ saved[k].description =
                  DescriptionOf(fields, Ascending(SubmittedNumbers(fields))[k])
           /\ saved[k].picture_url # NoUrl
                  <=> \E i \in DOMAIN fields :
                          /\ CarriesStepImage(fields[i])
                          /\ fields[i].num.val =
                                 Ascending(SubmittedNumbers(fields))[k]

----------------------------------------------------------------------------
(* Updates that fail midway, absent records, invalid forms: C21, C22, C23
   (under Spec) *)

\* update_preparation returned an error after delete_by_preparation_id
\* succeeded
FailedAfterDelete ==
    /\ req # NoReq
    /\ out.calls = 1
    /\ out.handler = "update_preparation"
    /\ out.response.status = 500
    /\ "preparation_steps" \in out.writes

\* update_preparation returned an error after delete_by_preparation_id
\* succeeded and before it inserted a step
FailedAtFirstStep ==
    FailedAfterDelete /\ FailedStep(req, "update_preparation") = 1

\* C21: when update_preparation fails after delete_by_preparation_id
\* succeeded and before a new step is inserted (the store of the first step's
\* image fails, or its insert), the preparation is left without steps, the
\* steps it had are gone, the steps of other preparations are as they were,
\* and its row already carries the submitted fields and the picture stored
\* during this request, if the body carried one
C21_FailedUpdateLeavesNoSteps ==
    [][ FailedAtFirstStep'
          => /\ \A i \in DOMAIN steps' :
                     steps'[i].preparation_id # PathId(req')
             /\ steps' = SelectSeq(steps,
                             LAMBDA s : s.preparation_id # PathId(req'))
             /\ IF CarriesNewPicture(req')
                THEN preparations'[PathId(req')].picture_url \in blobs' \ blobs
                ELSE preparations'[PathId(req')].picture_url
                         = preparations[PathId(req')].picture_url
             /\ preparations'[PathId(req')] =
                    PreparationRow(SubmittedText,
                        preparations'[PathId(req')].picture_url)
      ]_vars

\* C21: the store of the first new step's image failed after the row was
\* updated and the old steps deleted: the row references the picture stored
\* by this request, next to the blob of an earlier request, and no step is
\* left
C21_Witness ==
    /\ FailedAtFirstStep
    /\ "storage failed" \in out.writes
    /\ steps = <<>>
    /\ Cardinality(blobs) = 2
    /\ \A i \in DOMAIN preparations :
           /\ preparations[i].picture_url \in blobs
           /\ preparations[i].picture_url.uuid = 2

\* the handler of an update route ran, its fetch succeeded, and the id of
\* the path has no row in the table the route updates
UpdatesAbsent(r, done, product_rows, preparation_rows) ==
    /\ r # NoReq
    /\ done.calls = 1
    /\ r.fail_op # 1
    /\ \/ /\ done.handler = "update_product"
          /\ PathId(r) \notin DOMAIN product_rows
       \/ /\ done.handler = "update_preparation"
          /\ PathId(r) \notin DOMAIN preparation_rows

\* C22: update_product and update_preparation on an id that has no record
\* answer 404, write no table and do not call the storage adapter, whatever
\* the body carries (fields that fail validation, an image, a part the
\* parser cannot read): the tables and the storage are as before the request
C22_AbsentRecordNotFound ==
    [][ UpdatesAbsent(req', out', products, preparations)
          => /\ out'.response.status = 404
             /\ out'.writes = {}
             /\ UNCHANGED dbVars
      ]_vars

\* C22: update_preparation was sent valid fields and a picture for an id
\* that has no row: 404, nothing stored, nothing written
C22_Witness ==
    /\ UpdatesAbsent(req, out, products, preparations)
    /\ out.handler = "update_preparation"
    /\ SubmittedFilenames(req) = {"photo.PNG"}
    /\ out.response = Response(404, PlainText("404 - Preparation Not Found"))
    /\ blobs = {}
    /\ preparations = <<>>

\* one requirement on a field: whether the value breaks it, and the message
Check(bad, msg) == [msg |-> msg, bad |-> bad]

\* the requirements on the request's form, in the order of the fields
FieldChecks(r) ==
    IF "fields" \in DOMAIN r.form
    THEN << Check(TrimIsEmpty(TextOf(r.form.fields, "name")),
                  "Preparation name cannot be empty"),
            Check(TextOf(r.form.fields, "prep_type")
                      \notin {"fruit", "bread", "veg", "meat", "seafood"},
                  "Invalid preparation type"),
            Check(TextOf(r.form.fields, "shift")
                      \notin {"brekkie", "lunch", "both"},
                  "Invalid shift selection"),
            Check(TrimIsEmpty(TextOf(r.form.fields, "location")),
                  "Location cannot be empty"),
            Check(TrimIsEmpty(TextOf(r.form.fields, "steps")),
                  "Steps cannot be empty") >>
    ELSE << Check(TrimIsEmpty(r.form.supplier_name),
                  "Supplier name cannot be empty"),
            Check(TrimIsEmpty(r.form.product_name),
                  "Product name cannot be empty"),
            Check(TrimIsEmpty(r.form.location), "Location cannot be empty"),
            Check(TrimIsEmpty(r.form.description),
                  "Description cannot be empty") >>

FailingChecks(r) == { i \in DOMAIN FieldChecks(r) : FieldChecks(r)[i].bad }

FirstFailingMessage(r) ==
    FieldChecks(r)[CHOOSE i \in FailingChecks(r) :
                       \A j \in FailingChecks(r) : i <= j].msg

\* a handler that takes a form ran on a body every part of which could be
\* read, for a record that exists where the route addresses one, and no
\* operation and no template failed
FormReached(r, done) ==
    /\ r # NoReq
    /\ done.calls = 1
    /\ done.handler \in UploadHandlers
    /\ AddressesRecord(r)
    /\ r.fail_op = 0
    /\ r.faults = {}
    /\ "fields" \in DOMAIN r.form
           => \A i \in DOMAIN r.form.fields : ~r.form.fields[i].broken

\* C23: when the form fails validation (a required field empty after
\* trimming, a prep_type outside fruit, bread, veg, meat, seafood, a shift
\* outside brekkie, lunch, both), create_product, update_product,
\* create_preparation and update_preparation answer 400 with the message of
\* the first failing field and leave products, preparations and
\* preparation_steps unchanged
C23_ValidationFailureRejected ==
    [][ (FormReached(req', out') /\ FailingChecks(req') # {})
          => /\ out'.response.status = 400
             /\ out'.response.body.error = FirstFailingMessage(req')
             /\ out'.writes \cap {"products", "preparations",
                                  "preparation_steps"} = {}
             /\ UNCHANGED <<products, preparations, steps>>
      ]_vars

\* C23: update_preparation was sent a prep_type, a shift and a location
\* that all fail validation for a preparation that exists: 400 with the
\* message about the preparation type
C23_Witness ==
    /\ FormReached(req, out)
    /\ out.handler = "update_preparation"
    /\ Cardinality(FailingChecks(req)) = 3
    /\ out.response.status = 400
    /\ out.response.body.error = "Invalid preparation type"
    /\ preparations # <<>>

----------------------------------------------------------------------------
(* The steps and the picture a preparation is left with: C25, C26, C28
   (under Spec) *)

\* create_preparation or update_preparation answered with the redirect to
\* the preparation
PreparationSaved(r, done) ==
    /\ r # NoReq
    /\ done.calls = 1
    /\ done.handler \in {"create_preparation", "update_preparation"}
    /\ done.response.status = 303

\* the steps of the preparation are all those submitted, renumbered
Renumbered(fields, saved) ==
    /\ Len(saved) = Cardinality(SubmittedNumbers(fields))
    /\ AsSubmitted(fields, saved)

\* C25: after every successful create_preparation or update_preparation the
\* steps of that preparation carry exactly the numbers 1..n, one step per
\* submitted number, assigned in ascending order of the submitted numbers
\* whatever their gaps and the order of the fields; a number submitted in a
\* description field and in an image field yields one step
C25_StepsRenumbered ==
    [][ PreparationSaved(req', out')
          => Renumbered(req'.form.fields,
                        StepsOf(steps', out'.response.location.val[2]))
      ]_vars

\* C25: a preparation was updated with step 3 (description and image) sent
\* before step 1: two steps, "chop" numbered 1 and "simmer" numbered 2
C25_Witness ==
    /\ PreparationSaved(req, out)
    /\ out.handler = "update_preparation"
    /\ SubmittedNumbers(req.form.fields) = {1, 3}
    /\ Len(steps) = 2
    /\ steps[1].step_number = 1 /\ steps[1].description = "chop"
    /\ steps[2].step_number = 2 /\ steps[2].description = "simmer"
    /\ steps[2].picture_url \in blobs

\* update_product or update_preparation answered with the redirect
UpdateSaved(r, done) ==
    /\ r # NoReq
    /\ done.calls = 1
    /\ done.handler \in {"update_product", "update_preparation"}
    /\ done.response.status = 303

\* C26: a successful update_product or update_preparation whose body
\* carries no new main picture (no picture part, an empty file name, an
\* extension outside the allowed set, or for preparations no bytes) leaves
\* the picture_url of the record as it was and stores nothing for the main
\* picture: the storage grows by the images of the steps alone
C26_PictureKeptWithoutNewImage ==
    [][ (UpdateSaved(req', out') /\ ~CarriesNewPicture(req'))
          => /\ out'.handler = "update_product"
                  => products'[PathId(req')].picture_url
                         = products[PathId(req')].picture_url
             /\ out'.handler = "update_preparation"
                  => preparations'[PathId(req')].picture_url
                         = preparations[PathId(req')].picture_url
             /\ Cardinality(blobs') =
                    Cardinality(blobs) + Cardinality(StepImageNumbers(req'))
             /\ StepImageNumbers(req') = {} => "storage" \notin out'.writes
      ]_vars

\* C26: a preparation that has a picture was updated with a picture part
\* whose file name is empty: nothing was stored and the row still references
\* the one blob
C26_Witness ==
    /\ UpdateSaved(req, out)
    /\ out.handler = "update_preparation"
    /\ SubmittedFilenames(req) = {""}
    /\ "storage" \notin out.writes
    /\ Cardinality(blobs) = 1
    /\ preparations[PathId(req)].picture_url \in blobs

\* create_preparation inserted the preparation and the store or the insert
\* of one of its steps failed
CreateFailedAtStep ==
    /\ req # NoReq
    /\ out.calls = 1
    /\ out.handler = "create_preparation"
    /\ "preparations" \in out.writes
    /\ FailedStep(req, "create_preparation") > 0

\* create_preparation stored the picture of a body whose fields then failed
\* validation
CreateInvalidWithPicture ==
    /\ req # NoReq
    /\ out.calls = 1
    /\ out.handler = "create_preparation"
    /\ req.fail_op = 0
    /\ \A i \in DOMAIN req.form.fields : ~req.form.fields[i].broken
    /\ FailingChecks(req) # {}
    /\ CarriesPictureOnCreate(req)

\* C28: create_preparation is not atomic.  When the store of the image or
\* the insert of the k-th step fails, the request is answered 500 while the
\* new preparation row, with the submitted fields and the picture stored for
\* it, and the steps 1..k-1 are in the tables; and the picture stored while
\* the body was read is still in the storage, with no preparation written,
\* when the fields then fail validation
C28_CreatePreparationNotAtomic ==
    [][ /\ CreateFailedAtStep'
          => /\ out'.response.status = 500
             /\ Cardinality(DOMAIN preparations' \ DOMAIN preparations) = 1
             /\ \A id \in DOMAIN preparations' \ DOMAIN preparations :
                    /\ preparations'[id] =
                           PreparationRow(SubmittedText,
                                          preparations'[id].picture_url)
                    /\ IF CarriesPictureOnCreate(req')
                       THEN preparations'[id].picture_url \in blobs' \ blobs
                       ELSE preparations'[id].picture_url = NoUrl
                    /\ Len(StepsOf(steps', id))
                           = FailedStep(req', "create_preparation") - 1
                    /\ AsSubmitted(req'.form.fields, StepsOf(steps', id))
        /\ CreateInvalidWithPicture'
          => /\ out'.response.status \in {400, 500}
             /\ blobs \subseteq blobs'
             /\ Cardinality(blobs') = Cardinality(blobs) + 1
             /\ preparations' = preparations
             /\ steps' = steps
      ]_vars

\* C28: the store of the second step's image failed: 500, and the new
\* preparation and its first step are in the tables
C28_Witness ==
    /\ CreateFailedAtStep
    /\ FailedStep(req, "create_preparation") = 2
    /\ "storage failed" \in out.writes
    /\ out.response.status = 500
    /\ preparations # <<>>
    /\ Len(steps) = 1
    /\ steps[1].step_number = 1
    /\ steps[1].description = "chop"

----------------------------------------------------------------------------
(* The middleware's refusals, its choice of token, and the identity on
   public routes: C24, C27, C29 (under SpecAuth) *)

\* the middleware found no token, or the token it selected failed
\* validate_token
Refused ==
    /\ req # NoReq
    /\ Wrapped(req)
    /\ \/ out.selected = Some(None)
       \/ IsSome(out.validated) /\ out.validated.val.kind = "Err"

\* C24: every refusal of the Authentication middleware is answered 401,
\* with the rendered 401 page when the template renders and with the plain
\* text "Authentication required" when it does not, without reaching the
\* handler and without unwinding the request; and every 401 of a wrapped
\* route is such a refusal
C24_UnauthorizedPageOrText ==
    /\ Refused
        => /\ out.calls = 0
           /\ out.response =
                  IF "render" \in req.faults
                  THEN Response(401, PlainText("Authentication required"))
                  ELSE Response(401, [page |-> "401.html"])
    /\ (req # NoReq /\ Wrapped(req) /\ out.response.status = 401) => Refused

\* C24: the token of the request failed validation and the 401 page did not
\* render: 401 with the plain text
C24_Witness ==
    /\ Refused
    /\ "render" \in req.faults
    /\ IsSome(out.validated)
    /\ out.response = Response(401, PlainText("Authentication required"))

\* the request is to a wrapped route, with an Authorization header that
\* begins with "Bearer " and whose remainder fails validate_token, and with
\* an auth_token cookie that passes it
FailingBearerValidCookie ==
    /\ req # NoReq
    /\ Wrapped(req)
    /\ HasBearer(req)
    /\ ~IsOk(validate_token(SliceFrom(req.authorization.val, Len(BearerPrefix)),
                            env, now))
    /\ IsSome(req.cookie)
    /\ IsOk(validate_token(req.cookie.val, env, now))

\* C27 as stated: a request to a wrapped route whose Authorization header
\* begins with "Bearer " and carries a token that fails validation is
\* answered 401 also when its auth_token cookie is valid
C27_FailedBearerUnauthorized ==
    FailingBearerValidCookie
        => (out.response.status = 401 /\ out.calls = 0)

\* C27, amended: a request to a wrapped route whose Authorization header
\* consists of visible ASCII bytes, begins with "Bearer " and carries a
\* token that fails validation is answered 401 also when its auth_token
\* cookie is valid; the cookie is what the middleware validates only when
\* it selected no token from the header
C27_FailedReadableBearerUnauthorized ==
    /\ (FailingBearerValidCookie /\ Readable(req.authorization.val))
          => /\ out.response.status = 401
             /\ out.calls = 0
             /\ out.selected = Some(SelectionAsStated(req))
    /\ (req # NoReq /\ Wrapped(req) /\ HasBearer(req)
            /\ Readable(req.authorization.val))
          => /\ out.selected = Some(SelectionAsStated(req))
             /\ out.validated =
                    Some(validate_token(SelectionAsStated(req).val, env, now))

\* C27: a readable Bearer header with a token that fails validation came
\* with a valid cookie, and the request got its 401
C27_Witness ==
    /\ FailingBearerValidCookie
    /\ Readable(req.authorization.val)
    /\ out.response.status = 401
    /\ out.calls = 0

\* the handler of a route the middleware does not wrap ran and took an
\* OptionalAuth
PublicWithOptionalAuth ==
    /\ req # NoReq
    /\ ~Wrapped(req)
    /\ out.calls = 1
    /\ IsSome(out.optional_auth)

\* the Authorization header is "Bearer " followed by a token that passes
\* validate_token
ValidBearer(r) ==
    /\ HasBearer(r)
    /\ Readable(r.authorization.val)
    /\ IsOk(validate_token(SliceFrom(r.authorization.val, Len(BearerPrefix)),
                           env, now))

\* C29: on a route the Authentication middleware does not wrap, OptionalAuth
\* takes the identity from the auth_token cookie alone: a request that
\* presents a valid token in an "Authorization: Bearer" header and no cookie
\* is served as anonymous, and one that presents the token in the cookie is
\* served with the identity of its claims, with or without the header
C29_PublicIdentityFromCookieOnly ==
    /\ (PublicWithOptionalAuth /\ ValidBearer(req) /\ ~IsSome(req.cookie))
          => /\ out.optional_auth = Some(Ok([user |-> None]))
             /\ out.extensions = None
             /\ out.response.body.is_authenticated = FALSE
    /\ (/\ PublicWithOptionalAuth
        /\ IsSome(req.cookie)
        /\ IsOk(validate_token(req.cookie.val, env, now))
        /\ IsOk(UserOfClaims(validate_token(req.cookie.val, env, now).val)))
          => /\ out.optional_auth =
                    Some(Ok([user |-> Some(UserOfClaims(
                        validate_token(req.cookie.val, env, now).val).val)]))
             /\ out.response.body.is_authenticated = TRUE

\* C29: GET / came with a valid token in the Bearer header and no cookie,
\* and the page was rendered for an anonymous visitor
C29_Witness ==
    /\ PublicWithOptionalAuth
    /\ ValidBearer(req)
    /\ ~IsSome(req.cookie)
    /\ out.optional_auth = Some(Ok([user |-> None]))
    /\ out.response.status = 200
    /\ out.response.body.is_authenticated = FALSE

====
